---- MODULE Spec2Model ----
(***************************************************************************)
(* State-machine model of the SeaweedFS service broker                     *)
(* (src/seaweedfs-broker/broker/broker.go) together with its FileStore     *)
(* (store package) and the identity API it drives.                          *)
(*                                                                         *)
(* Every HTTP handler is a process that runs in a request slot; one step   *)
(* of a handler is one call into the store or into an external system,     *)
(* together with the local computation that follows it.  The store keeps   *)
(* POINTERS to instance records (FileStore.SaveInstance stores the pointer *)
(* it is given and GetInstance returns it), so instance records live in a   *)
(* heap, objs, and the store maps an instance ID to a heap reference.      *)
(***************************************************************************)
EXTENDS Integers, Sequences, FiniteSets, TLC

(* ------------------------------ bounds -------------------------------- *)
MaxObjects == 2      \* instance records allocated during a run
MaxKeys == 2         \* access keys the identity API issues during a run
MaxInFlight == 2     \* request handlers, and background routines, running concurrently
MaxFaults == 1       \* failures of external calls and file writes during a run
MaxPolls == 2        \* polls of a task that fit before the deadline of WaitForTask
MaxTime == 2         \* how long a run of the orchestration client lasts, in token lifetimes

Slots == 1..MaxInFlight
Routines == 1..MaxInFlight

(* An instance ID is the pair <<first 8 characters, rest>>; a binding ID   *)
(* is the pair <<first 16 characters, rest>>: the code only ever looks at  *)
(* the whole ID or at these prefixes.                                      *)
InstanceIDs == {<<1, 1>>, <<2, 1>>, <<1, 2>>}
BindingIDs == {<<1, 1>>, <<2, 1>>}

PlanTypeShared == "shared"
PlanTypeDedicated == "dedicated"
(* the plans of the catalog, and a plan ID that is not in the catalog *)
Plans == {PlanTypeShared, PlanTypeDedicated, "unknown"}

(* instance.ID[:8] *)
Prefix8(id) == id[1]
(* binding.ID[:min(len(binding.ID), 16)] *)
Prefix16(id) == id[1]

(* ------------------------------ records ------------------------------- *)
NoURL == <<>>

(* fmt.Sprintf("https://seaweedfs-%s.%s", instance.ID[:8], SystemDomain) *)
RouteURL(id) == <<"https://seaweedfs", Prefix8(id)>>

(* the space every instance is provisioned in (ProvisionRequest.SpaceGUID) *)
SpaceGUID == <<1, 1>>

(* fmt.Sprintf("cf-%s-%s", instance.SpaceGUID[:8], instance.ID[:8]) *)
SharedBucketName(id) == <<"cf", Prefix8(SpaceGUID), Prefix8(id)>>
DefaultBucket == <<"default">>
NoBucket == <<>>

(* fmt.Sprintf("%s-%s", DeploymentPrefix, instance.ID[:8]); the variant    *)
(* leaves the name empty.                                                  *)
UnnamedDeployment(id) == <<>>
DeploymentNameOf(id) == <<"seaweedfs", Prefix8(id)>>
NoDeployment == <<>>

(* fmt.Sprintf("cf-binding-%s", binding.ID[:min(len(binding.ID), 16)]) *)
UserNameOf(bid) == <<"cf-binding", Prefix16(bid)>>
NoUser == <<>>

(* Keys are numbers: 0 is the empty string, 1..MaxKeys are the keys the    *)
(* identity API issues, AdminKeyOf(o) is the admin key generated for the   *)
(* instance record o (generateAccessKey / generateSecretKey).              *)
NoKey == 0
AdminKeyOf(o) == 100 + o

(* store.ServiceBinding *)
NoBinding ==
  [present |-> FALSE, InstanceID |-> <<0, 0>>, AccessKey |-> NoKey,
   SecretKey |-> NoKey, IAMUserName |-> NoUser]

(* &store.ServiceInstance{...} as built by provisionHandler *)
NewInstance(id, planType) ==
  [ID |-> id, Plan |-> planType, State |-> "provisioning", StateMessage |-> "",
   BucketName |-> NoBucket, DeploymentName |-> NoDeployment,
   S3Endpoint |-> "", IAMEndpoint |-> FALSE, ConsoleURL |-> NoURL,
   AdminAccessKey |-> NoKey, AdminSecretKey |-> NoKey,
   createdURL |-> <<"pending">>]

(* a record that nothing references any more *)
DeadInstance == [NewInstance(<<0, 0>>, "none") EXCEPT !.State = "dead"]

NoCreds == [endpoint |-> "", bucket |-> NoBucket,
            access_key |-> NoKey, secret_key |-> NoKey,
            use_ssl |-> FALSE, endpoint_url |-> <<>>, console_url |-> NoURL]

IdleReq ==
  [op |-> "none", iid |-> <<0, 0>>, bid |-> <<0, 0>>, plan |-> "none",
   async |-> FALSE, pc |-> "idle", inst |-> 0, bnd |-> NoBinding,
   seen |-> "", calls |-> <<>>, fails |-> 0, wrote |-> FALSE,
   code |-> 0, err |-> "", url |-> NoURL, creds |-> NoCreds,
   state |-> "", desc |-> <<>>, auth |-> "", version |-> FALSE]

(* r.BasicAuth() against the configured user and password *)
Credentials == {"valid", "wrong", "missing"}

(* bosh.Task as WaitForTask reads it, and the error WaitForTask returns *)
TaskStates == {"queued", "processing", "done", "error", "cancelled", "timeout"}
TaskResults == {"", "log"}
Tasks == [State : TaskStates, Result : TaskResults]
NoTask == [State |-> "", Result |-> ""]
DoneTask == [State |-> "done", Result |-> ""]
ErrorTask == [State |-> "error", Result |-> "log"]
NoError == <<>>

(* the deployment descriptor, before one is generated *)
NoManifest == <<>>

(* A background routine: its position, the instance record it holds, the   *)
(* zones its discovery returned, the descriptor it generated, and inside   *)
(* WaitForTask the time spent (in polls), the task last fetched and the    *)
(* error returned.                                                         *)
IdleRoutine ==
  [kind |-> "none", obj |-> 0, pc |-> "idle",
   clock |-> 0, task |-> NoTask, err |-> NoError,
   azs |-> <<>>, manifest |-> NoManifest]

(* The broker configuration, fixed for a run.                              *)
(*   shared       cfg.SharedCluster.S3Endpoint != ""  (s3Client, iamClient)*)
(*   bosh         cfg.BOSH.URL != ""                  (boshClient)         *)
(*   systemDomain cfg.CF.SystemDomain != ""                                *)
(*   cfDeployment cfg.CF.DeploymentName != ""                              *)
(*   natsTLS      cfg.NATS.TLS.Enabled && cfg.NATS.TLS.ClientCert != ""    *)
(*   natsMachines len(cfg.NATS.Machines) > 0                               *)
(*   sharedSSL    cfg.SharedCluster.UseSSL                                 *)
(*   planAZs      DedicatedConfig.AZs of the dedicated plan                *)
(*   planNetwork  DedicatedConfig.Network != ""                            *)
(* The plan's AZs are the one part provisionDedicatedCluster writes: it    *)
(* stores there the zones it discovers when none are configured.           *)
RoutedConfig ==
  [shared |-> TRUE, bosh |-> TRUE, systemDomain |-> TRUE,
   cfDeployment |-> TRUE, natsTLS |-> TRUE, natsMachines |-> TRUE,
   sharedSSL |-> TRUE,
   planAZs |-> <<"z1">>, planNetwork |-> TRUE]
PlainConfig ==
  [shared |-> TRUE, bosh |-> TRUE, systemDomain |-> FALSE,
   cfDeployment |-> FALSE, natsTLS |-> FALSE, natsMachines |-> FALSE,
   sharedSSL |-> FALSE,
   planAZs |-> <<"z1">>, planNetwork |-> TRUE]
Configs == {RoutedConfig, PlainConfig}
(* a broker without an orchestrator (cfg.BOSH.URL == "") *)
NoBoshConfig ==
  [shared |-> TRUE, bosh |-> FALSE, systemDomain |-> FALSE,
   cfDeployment |-> FALSE, natsTLS |-> FALSE, natsMachines |-> FALSE,
   sharedSSL |-> FALSE,
   planAZs |-> <<"z1">>, planNetwork |-> TRUE]
(* brokers whose dedicated plan names a network and no zones: with and    *)
(* without the route-registration settings, and with all of them but the   *)
(* NATS machines                                                           *)
ZonelessConfigs ==
  {[c EXCEPT !.planAZs = <<>>] :
     c \in {RoutedConfig, PlainConfig,
            [RoutedConfig EXCEPT !.natsMachines = FALSE]}}
(* a broker without a shared cluster (cfg.SharedCluster.S3Endpoint == "") *)
NoSharedConfig ==
  [shared |-> FALSE, bosh |-> TRUE, systemDomain |-> FALSE,
   cfDeployment |-> FALSE, natsTLS |-> FALSE, natsMachines |-> FALSE,
   sharedSSL |-> FALSE,
   planAZs |-> <<"z1">>, planNetwork |-> TRUE]

VARIABLES
  cfg,          \* Broker.config
  scn,          \* the scenario: the load the platform puts on the broker
  objs,         \* heap of *store.ServiceInstance records
  instances,    \* FileStore.state.Instances: instance ID -> heap reference, 0 = absent
  bindings,     \* FileStore.state.Bindings: binding ID -> record
  reqs,         \* the request handlers in flight, one per slot
  routines,     \* the detached background routines
  iamUsers,     \* identity API: users, as <<cluster, user name>>
  iamKeys,      \* identity API: valid access keys, as <<cluster, user name, key>>
  nextKey,      \* the next access key the identity API issues
  buckets,      \* buckets present on the shared cluster
  deployments,  \* deployments present on the orchestrator
  faults,       \* failures of external calls and file writes so far
  director      \* bosh.Client: the cached token, and the calls inside authenticate

vars == <<cfg, scn, objs, instances, bindings, reqs, routines,
          iamUsers, iamKeys, nextKey, buckets, deployments, faults, director>>

(* a token is named by the routine that fetched it and the time of issue *)
NoToken == <<>>

(* A call of the orchestration client inside authenticate: its position    *)
(* and the token it fetched.                                               *)
NoCall == [pos |-> "idle", fetched |-> NoToken]

(* bosh.NewClient: no token, the zero expiry; the clock starts at 1 *)
NewClient ==
  [token |-> NoToken, tokenExpiry |-> 0, now |-> 1,
   calls |-> [r \in Routines |-> NoCall]]

(* broker.New: an empty store (no state file yet), no request running.     *)
InitState ==
  /\ objs = <<>>
  /\ instances = [i \in InstanceIDs |-> 0]
  /\ bindings = [b \in BindingIDs |-> NoBinding]
  /\ reqs = [s \in Slots |-> IdleReq]
  /\ routines = [r \in Routines |-> IdleRoutine]
  /\ iamUsers = {}
  /\ iamKeys = {}
  /\ nextKey = 1
  /\ buckets = {}
  /\ deployments = {}
  /\ faults = 0
  /\ director = NewClient

(* A scenario fixes the load on the broker:                                *)
(*   handlers   how many requests are handled at a time                    *)
(*   routines   how many background routines run at a time                 *)
(*   instances  the instance IDs the platform uses                         *)
(*   bindings   the binding IDs the platform uses                          *)
(*   plans      the plans the platform asks for                            *)
(*   faults     how many external calls and file writes may fail           *)
(*   polls      how many polls of a task fit before WaitForTask's deadline *)
(*   tasks      the tasks the director reports                             *)
(*   auths      the basic-auth credentials requests carry                  *)
(*   versions   whether requests carry X-Broker-API-Version                *)
(* The platform sends one request at a time for one instance; one          *)
(* background routine runs concurrently with the handlers.                 *)
Init ==
  /\ cfg \in Configs
  /\ scn = [handlers |-> 1, routines |-> 1, instances |-> {<<1, 1>>},
            bindings |-> BindingIDs, plans |-> Plans, faults |-> MaxFaults,
            polls |-> 1,
            tasks |-> {DoneTask, ErrorTask},
            auths |-> {"valid"}, versions |-> {TRUE}]
  /\ InitState

(* MaxInFlight requests for one shared-plan instance are handled           *)
(* concurrently, and nothing fails.                                        *)
InitConcurrent ==
  /\ cfg = PlainConfig
  /\ scn = [handlers |-> MaxInFlight, routines |-> 0,
            instances |-> {<<1, 1>>}, bindings |-> BindingIDs,
            plans |-> {PlanTypeShared}, faults |-> 0,
            polls |-> 1,
            tasks |-> {DoneTask, ErrorTask},
            auths |-> {"valid"}, versions |-> {TRUE}]
  /\ InitState

(* One request at a time, for two instances and one binding ID; nothing    *)
(* fails.                                                                  *)
InitTwoInstances ==
  /\ cfg = PlainConfig
  /\ scn = [handlers |-> 1, routines |-> 1, instances |-> {<<1, 1>>, <<2, 1>>},
            bindings |-> {<<1, 1>>}, plans |-> Plans, faults |-> 0,
            polls |-> 1,
            tasks |-> {DoneTask},
            auths |-> {"valid"}, versions |-> {TRUE}]
  /\ InitState

(* One request at a time for one instance of the dedicated plan, while     *)
(* MaxInFlight background routines run concurrently: a cluster creation    *)
(* takes long enough for the platform to send the next request.            *)
InitLifecycle ==
  /\ cfg = PlainConfig
  /\ scn = [handlers |-> 1, routines |-> MaxInFlight, instances |-> {<<1, 1>>},
            bindings |-> {}, plans |-> {PlanTypeDedicated}, faults |-> MaxFaults,
            polls |-> 1,
            tasks |-> {DoneTask, ErrorTask},
            auths |-> {"valid"}, versions |-> {TRUE}]
  /\ InitState

(* One request at a time for two shared-plan instances whose IDs begin     *)
(* with the same 8 characters; nothing fails.                              *)
InitSamePrefix ==
  /\ cfg = PlainConfig
  /\ scn = [handlers |-> 1, routines |-> 0, instances |-> {<<1, 1>>, <<1, 2>>},
            bindings |-> {<<1, 1>>}, plans |-> {PlanTypeShared}, faults |-> 0,
            polls |-> 1,
            tasks |-> {DoneTask, ErrorTask},
            auths |-> {"valid"}, versions |-> {TRUE}]
  /\ InitState

(* One request at a time for one instance of the dedicated plan, with the  *)
(* platform polling last_operation; the broker may lack an orchestrator.   *)
InitPolling ==
  /\ cfg \in {PlainConfig, NoBoshConfig}
  /\ scn = [handlers |-> 1, routines |-> 1, instances |-> {<<1, 1>>},
            bindings |-> {}, plans |-> {PlanTypeDedicated}, faults |-> MaxFaults,
            polls |-> MaxPolls,
            tasks |-> Tasks,
            auths |-> {"valid"}, versions |-> {TRUE}]
  /\ InitState

(* The lifecycle of one dedicated instance with two background routines,   *)
(* a director that answers every call and reports the task in any state,   *)
(* and a deadline of MaxPolls polls.                                       *)
InitProvisioning ==
  /\ cfg = PlainConfig
  /\ scn = [handlers |-> 1, routines |-> 2, instances |-> {<<1, 1>>},
            bindings |-> {}, plans |-> {PlanTypeDedicated}, faults |-> 0,
            polls |-> MaxPolls,
            tasks |-> {DoneTask, ErrorTask, [State |-> "queued", Result |-> ""],
                       [State |-> "processing", Result |-> ""]},
            auths |-> {"valid"}, versions |-> {TRUE}]
  /\ InitState

(* The broker is started on the state file of an earlier run, which holds  *)
(* a succeeded shared instance (NewFileStore loads the file), with or      *)
(* without the shared cluster in its configuration.                        *)
InitReloaded ==
  /\ cfg \in {PlainConfig, NoSharedConfig}
  /\ scn = [handlers |-> 1, routines |-> 1, instances |-> {<<1, 1>>},
            bindings |-> {<<1, 1>>}, plans |-> Plans, faults |-> MaxFaults,
            polls |-> 1, tasks |-> {DoneTask},
            auths |-> {"valid"}, versions |-> {TRUE}]
  /\ objs = <<[NewInstance(<<1, 1>>, PlanTypeShared) EXCEPT
                 !.BucketName = SharedBucketName(<<1, 1>>),
                 !.State = "succeeded", !.createdURL = NoURL]>>
  /\ instances = [i \in InstanceIDs |-> IF i = <<1, 1>> THEN 1 ELSE 0]
  /\ bindings = [b \in BindingIDs |-> NoBinding]
  /\ reqs = [s \in Slots |-> IdleReq]
  /\ routines = [r \in Routines |-> IdleRoutine]
  /\ iamUsers = {}
  /\ iamKeys = {}
  /\ nextKey = 1
  /\ buckets = {SharedBucketName(<<1, 1>>)}
  /\ deployments = {}
  /\ faults = 0
  /\ director = NewClient

(* One request at a time for one instance, with any credentials and with   *)
(* or without the version header; nothing fails.                           *)
InitGate ==
  /\ cfg = PlainConfig
  /\ scn = [handlers |-> 1, routines |-> 1, instances |-> {<<1, 1>>},
            bindings |-> {<<1, 1>>}, plans |-> Plans, faults |-> 0,
            polls |-> 1, tasks |-> {DoneTask},
            auths |-> Credentials, versions |-> BOOLEAN]
  /\ InitState

(* Two dedicated instances are provisioned, one request at a time, while   *)
(* two background routines run; the plan names a network and no zones.     *)
InitDescriptor ==
  /\ cfg \in ZonelessConfigs
  /\ scn = [handlers |-> 1, routines |-> 2, instances |-> {<<1, 1>>, <<2, 1>>},
            bindings |-> {}, plans |-> {PlanTypeDedicated}, faults |-> MaxFaults,
            polls |-> 1, tasks |-> {DoneTask},
            auths |-> {"valid"}, versions |-> {TRUE}]
  /\ InitState

(* Two dedicated instances are provisioned; the calls their routines make  *)
(* to the orchestration client are followed through authenticate.          *)
InitDirector ==
  /\ cfg = PlainConfig
  /\ scn = [handlers |-> 1, routines |-> 2, instances |-> {<<1, 1>>, <<2, 1>>},
            bindings |-> {}, plans |-> {PlanTypeDedicated}, faults |-> MaxFaults,
            polls |-> 1, tasks |-> {DoneTask},
            auths |-> {"valid"}, versions |-> {TRUE}]
  /\ InitState

(* The broker is started on the state file of an earlier run, which holds  *)
(* a succeeded shared instance; requests for it and for one binding ID are *)
(* handled concurrently, and calls and file writes can fail.               *)
InitStore ==
  /\ cfg = PlainConfig
  /\ scn = [handlers |-> 2, routines |-> 0, instances |-> {<<1, 1>>},
            bindings |-> {<<1, 1>>}, plans |-> {PlanTypeShared},
            faults |-> MaxFaults, polls |-> 1, tasks |-> {DoneTask},
            auths |-> {"valid"}, versions |-> {TRUE}]
  /\ objs = <<[NewInstance(<<1, 1>>, PlanTypeShared) EXCEPT
                 !.BucketName = SharedBucketName(<<1, 1>>),
                 !.State = "succeeded", !.createdURL = NoURL]>>
  /\ instances = [i \in InstanceIDs |-> IF i = <<1, 1>> THEN 1 ELSE 0]
  /\ bindings = [b \in BindingIDs |-> NoBinding]
  /\ reqs = [s \in Slots |-> IdleReq]
  /\ routines = [r \in Routines |-> IdleRoutine]
  /\ iamUsers = {}
  /\ iamKeys = {}
  /\ nextKey = 1
  /\ buckets = {SharedBucketName(<<1, 1>>)}
  /\ deployments = {}
  /\ faults = 0
  /\ director = NewClient

(* ------------------------------ helpers ------------------------------- *)
SetReq(s, r) == reqs' = [reqs EXCEPT ![s] = r]

(* writeJSON / writeError: the handler returns after writing the response. *)
Respond(r, code, err) == [r EXCEPT !.pc = "done", !.code = code, !.err = err]

(* authMiddleware, then osbVersionMiddleware: the status that ends the     *)
(* request, 0 when the handler runs.  The variant checks the header first. *)
VersionFirst(auth, version) ==
  IF ~version THEN 412 ELSE IF auth # "valid" THEN 401 ELSE 0
Gate(auth, version) ==
  IF auth # "valid" THEN 401 ELSE IF ~version THEN 412 ELSE 0

GateError(code) == IF code = 401 THEN "Unauthorized" ELSE "MissingAPIVersion"

(* The request q on a /v2 route passes the middleware and its handler runs *)
(* (q is what the handler makes of it), or a middleware answers it.        *)
Admit(q) ==
  IF Gate(q.auth, q.version) = 0
    THEN q
    ELSE Respond([IdleReq EXCEPT !.op = q.op, !.iid = q.iid, !.bid = q.bid,
                                 !.plan = q.plan, !.async = q.async,
                                 !.auth = q.auth, !.version = q.version],
                 Gate(q.auth, q.version), GateError(Gate(q.auth, q.version)))

(* the request q as it arrives with the credentials and headers the        *)
(* platform sends                                                          *)
Arrivals(q) ==
  {Admit([q EXCEPT !.auth = a, !.version = v]) :
     a \in scn.auths, v \in scn.versions}

(* An external call or a write of the state file succeeds or fails; a run  *)
(* sees at most scn.faults failures.                                       *)
Outcomes == IF faults < scn.faults THEN {TRUE, FALSE} ELSE {TRUE}
Charge(ok) == IF ok THEN faults ELSE faults + 1

(* findPlan: the catalog holds one shared and one dedicated plan.  The     *)
(* variant finds a plan for every plan ID.                                 *)
findAnyPlan(planType) == TRUE
findPlan(planType) == planType \in {PlanTypeShared, PlanTypeDedicated}

(* Broker.getDashboardURL, applied to the instance record o                *)
getDashboardURL(o) ==
  IF o.DeploymentName # NoDeployment /\ o.ConsoleURL # NoURL
    THEN o.ConsoleURL
    ELSE IF o.DeploymentName # NoDeployment /\ cfg.systemDomain
           THEN RouteURL(o.ID)
           ELSE NoURL

(* FileStore.ListBindingsForInstance *)
ListBindingsForInstance(id) ==
  {b \in BindingIDs : bindings[b].present /\ bindings[b].InstanceID = id}

(* FileStore.GetInstance: the pointer stored under the ID, 0 for nil *)
GetInstance(id) == instances[id]

(* FileStore.SaveInstance / DeleteInstance: the map after the call.  The   *)
(* file is written afterwards, and only that can fail.                     *)
SaveInstance(ref) == [instances EXCEPT ![objs[ref].ID] = ref]
DeleteInstance(id) == [instances EXCEPT ![id] = 0]

(* FileStore.GetBinding: the record stored under the ID, NoBinding for nil *)
GetBinding(id) == bindings[id]

(* FileStore.SaveBinding / DeleteBinding: the map after the call.  The     *)
(* variant of SaveBinding keeps a record that is already stored.           *)
InsertBinding(id, binding) ==
  IF bindings[id].present THEN bindings ELSE [bindings EXCEPT ![id] = binding]
SaveBinding(id, binding) == [bindings EXCEPT ![id] = binding]
DeleteBinding(id) == [bindings EXCEPT ![id] = NoBinding]

(* the lowest free background-routine slot, 0 when none is free *)
FreeRoutine ==
  IF /\ \E r \in Routines : routines[r].pc = "idle"
     /\ Cardinality({r \in Routines : routines[r].pc # "idle"}) < scn.routines
    THEN CHOOSE r \in Routines :
           /\ routines[r].pc = "idle"
           /\ \A q \in Routines : routines[q].pc = "idle" => r <= q
    ELSE 0

(* the instance records something still points to *)
Reachable(ref) ==
  \/ \E i \in InstanceIDs : instances[i] = ref
  \/ \E t \in Slots : reqs[t].inst = ref
  \/ \E q \in Routines : routines[q].obj = ref

Tidy == \A ref \in 1..Len(objs) : objs[ref].State = "dead" \/ Reachable(ref)

(* A response is delivered, and an unreferenced record is reclaimed,       *)
(* before anything else happens: neither touches shared state.             *)
Quiet == Tidy /\ \A t \in Slots : reqs[t].pc # "done"

(* a request arrives on the lowest free slot, if the server has capacity   *)
Free(s) ==
  /\ Quiet
  /\ reqs[s].pc = "idle"
  /\ \A t \in Slots : reqs[t].pc = "idle" => s <= t
  /\ Cardinality({t \in Slots : reqs[t].pc # "idle"}) < scn.handlers

At(s, pc) == Quiet /\ reqs[s].pc = pc

(* provision requests that have not yet allocated their record *)
Allocating ==
  Cardinality({t \in Slots : reqs[t].pc \in {"p_get", "p_bucket", "p_save"}})

(* ---------------------------- new requests ---------------------------- *)
StartProvision(s) ==
  /\ Free(s)
  /\ Len(objs) + Allocating < MaxObjects
  /\ \E i \in scn.instances, p \in scn.plans,
        a \in BOOLEAN :
       \E q \in Arrivals([IdleReq EXCEPT !.op = "provision", !.iid = i,
                                          !.plan = p, !.async = a,
                                          !.pc = "p_get"]) :
         SetReq(s, q)
  /\ UNCHANGED <<cfg, scn, objs, instances, bindings, routines,
                 iamUsers, iamKeys, nextKey, buckets, deployments, faults, director>>

StartDeprovision(s) ==
  /\ Free(s)
  /\ \E i \in scn.instances, a \in BOOLEAN :
       \E q \in Arrivals([IdleReq EXCEPT !.op = "deprovision", !.iid = i,
                                          !.async = a, !.pc = "d_get"]) :
         SetReq(s, q)
  /\ UNCHANGED <<cfg, scn, objs, instances, bindings, routines,
                 iamUsers, iamKeys, nextKey, buckets, deployments, faults, director>>

StartBind(s) ==
  /\ Free(s)
  /\ \E i \in scn.instances, b \in scn.bindings :
       \E q \in Arrivals([IdleReq EXCEPT !.op = "bind", !.iid = i, !.bid = b,
                                          !.pc = "b_get"]) :
         SetReq(s, q)
  /\ UNCHANGED <<cfg, scn, objs, instances, bindings, routines,
                 iamUsers, iamKeys, nextKey, buckets, deployments, faults, director>>

StartUnbind(s) ==
  /\ Free(s)
  /\ \E i \in scn.instances, b \in scn.bindings :
       \E q \in Arrivals([IdleReq EXCEPT !.op = "unbind", !.iid = i, !.bid = b,
                                          !.pc = "u_get"]) :
         SetReq(s, q)
  /\ UNCHANGED <<cfg, scn, objs, instances, bindings, routines,
                 iamUsers, iamKeys, nextKey, buckets, deployments, faults, director>>

(* ------------------------- lastOperationHandler ----------------------- *)
(* The outcome lastOperationHandler reports for a stored state.  The       *)
(* variant reports every state but "failed" as succeeded.                  *)
OperationDone(state) == IF state = "failed" THEN "failed" ELSE "succeeded"
OperationState(state) ==
  IF state = "succeeded" THEN "succeeded"
  ELSE IF state = "failed" THEN "failed"
  ELSE "in progress"

(* the optional "description" of the answer *)
Description(msg) == IF msg # "" THEN <<msg>> ELSE <<>>

(* lastOperationHandler: one GetInstance and the answer *)
LastOperation(s) ==
  /\ Free(s)
  /\ \E i \in scn.instances :
       LET r == [IdleReq EXCEPT !.op = "last_operation", !.iid = i] IN
       \E q \in Arrivals(
                 IF instances[i] = 0
                   THEN Respond(r, 410, "InstanceNotFound")
                   ELSE LET o == objs[instances[i]] IN
                        [Respond(r, 200, "") EXCEPT
                           !.inst = instances[i],
                           !.state = OperationState(o.State),
                           !.desc = Description(o.StateMessage)]) :
         SetReq(s, q)
  /\ UNCHANGED <<cfg, scn, objs, instances, bindings, routines,
                 iamUsers, iamKeys, nextKey, buckets, deployments, faults, director>>

(* healthHandler: no middleware on this route *)
healthHandler(s) ==
  /\ Free(s)
  /\ \E a \in scn.auths, v \in scn.versions :
       SetReq(s, [Respond(IdleReq, 200, "") EXCEPT
                    !.op = "health", !.state = "ok", !.auth = a, !.version = v])
  /\ UNCHANGED <<cfg, scn, objs, instances, bindings, routines,
                 iamUsers, iamKeys, nextKey, buckets, deployments, faults, director>>

(* catalogHandler *)
catalogHandler(s) ==
  /\ Free(s)
  /\ \E q \in Arrivals(Respond([IdleReq EXCEPT !.op = "catalog"], 200, "")) :
       SetReq(s, q)
  /\ UNCHANGED <<cfg, scn, objs, instances, bindings, routines,
                 iamUsers, iamKeys, nextKey, buckets, deployments, faults, director>>

(* getInstanceHandler: one GetInstance and the answer *)
getInstanceHandler(s) ==
  /\ Free(s)
  /\ \E i \in scn.instances :
       LET r == [IdleReq EXCEPT !.op = "get_instance", !.iid = i] IN
       \E q \in Arrivals(
                 IF instances[i] = 0
                   THEN Respond(r, 404, "InstanceNotFound")
                   ELSE [Respond(r, 200, "") EXCEPT
                           !.inst = instances[i],
                           !.url = getDashboardURL(objs[instances[i]])]) :
         SetReq(s, q)
  /\ UNCHANGED <<cfg, scn, objs, instances, bindings, routines,
                 iamUsers, iamKeys, nextKey, buckets, deployments, faults, director>>

(* the response has been written: the handler returns *)
Return(s) ==
  /\ reqs[s].pc = "done"
  /\ SetReq(s, IdleReq)
  /\ UNCHANGED <<cfg, scn, objs, instances, bindings, routines,
                 iamUsers, iamKeys, nextKey, buckets, deployments, faults, director>>

(* the garbage collector reclaims the records nothing points to *)
Collect ==
  /\ ~Tidy
  /\ \A t \in Slots : reqs[t].pc # "done"
  /\ objs' = [ref \in 1..Len(objs) |->
                IF Reachable(ref) THEN objs[ref] ELSE DeadInstance]
  /\ UNCHANGED <<cfg, scn, instances, bindings, reqs, routines,
                 iamUsers, iamKeys, nextKey, buckets, deployments, faults, director>>

(* --------------------------- provisionHandler ------------------------- *)
(* GetInstance, the idempotent answer and request validation              *)
ProvisionGet(s) ==
  LET r == reqs[s] IN
  /\ At(s, "p_get")
  /\ IF instances[r.iid] # 0
       THEN SetReq(s, [Respond(r, 200, "") EXCEPT
                         !.url = getDashboardURL(objs[instances[r.iid]])])
       ELSE IF ~findPlan(r.plan)
         THEN SetReq(s, Respond(r, 400, "InvalidPlan"))
       ELSE IF r.plan = PlanTypeDedicated /\ ~r.async
         THEN SetReq(s, Respond(r, 422, "AsyncRequired"))
       ELSE SetReq(s, [r EXCEPT !.pc = IF r.plan = PlanTypeShared
                                         THEN "p_bucket" ELSE "p_save"])
  /\ UNCHANGED <<cfg, scn, objs, instances, bindings, routines,
                 iamUsers, iamKeys, nextKey, buckets, deployments, faults, director>>

(* provisionSharedBucket: MakeBucket on the shared cluster; an error is    *)
(* forgiven when the bucket turns out to exist.                            *)
ProvisionBucket(s) ==
  LET r == reqs[s] IN
  /\ At(s, "p_bucket")
  /\ IF ~cfg.shared
       THEN /\ SetReq(s, Respond(r, 500, "ProvisionError"))
            /\ UNCHANGED <<buckets, faults>>
       ELSE \E ok \in Outcomes :
              /\ faults' = Charge(ok)
              /\ IF ok
                   THEN /\ buckets' = buckets \cup {SharedBucketName(r.iid)}
                        /\ SetReq(s, [r EXCEPT !.pc = "p_save"])
                   ELSE /\ buckets' = buckets
                        /\ SetReq(s, Respond(r, 500, "ProvisionError"))
  /\ UNCHANGED <<cfg, scn, objs, instances, bindings, routines,
                 iamUsers, iamKeys, nextKey, deployments, director>>

(* instance.State = "succeeded" once the shared bucket exists; the variant *)
(* leaves the state as it was built.                                       *)
StillProvisioning == "provisioning"
SharedState == "succeeded"

(* The record provisionHandler hands to SaveInstance: a shared instance    *)
(* has its bucket and is succeeded, a dedicated one is provisioning.  The  *)
(* variant marks every instance succeeded.                                 *)
SucceededInstance(id, planType) ==
  [NewInstance(id, planType) EXCEPT
     !.BucketName = IF planType = PlanTypeShared THEN SharedBucketName(id) ELSE @,
     !.State = "succeeded"]
ProvisionedInstance(id, planType) ==
  IF planType = PlanTypeShared
    THEN [NewInstance(id, planType) EXCEPT !.BucketName = SharedBucketName(id),
                                           !.State = SharedState]
    ELSE NewInstance(id, planType)

(* FileStore.SaveInstance: the map entry is replaced by the pointer, then  *)
(* the file is written; only the file write can fail.  A shared instance   *)
(* is answered 201; for a dedicated one the background routine starts.     *)
ProvisionSave(s) ==
  LET r == reqs[s]
      ref == Len(objs) + 1
      o == ProvisionedInstance(r.iid, r.plan) IN
  /\ At(s, "p_save")
  /\ r.plan = PlanTypeDedicated => FreeRoutine # 0
  /\ instances' = [instances EXCEPT ![r.iid] = ref]
  /\ \E saved \in Outcomes :
       /\ faults' = Charge(saved)
       /\ IF ~saved
            THEN /\ objs' = Append(objs, o)
                 /\ routines' = routines
                 /\ SetReq(s, [Respond(r, 500, "StoreError") EXCEPT
                                 !.inst = ref, !.wrote = TRUE])
            ELSE IF r.plan = PlanTypeShared
              THEN /\ objs' = Append(objs, [o EXCEPT !.createdURL = getDashboardURL(o)])
                   /\ routines' = routines
                   /\ SetReq(s, [Respond(r, 201, "") EXCEPT !.inst = ref,
                                   !.wrote = TRUE, !.url = getDashboardURL(o)])
              ELSE /\ objs' = Append(objs, o)
                   /\ routines' = [routines EXCEPT ![FreeRoutine] =
                                     [IdleRoutine EXCEPT
                                        !.kind = "provision", !.obj = ref,
                                        !.pc = "r_start"]]
                   /\ SetReq(s, [r EXCEPT !.inst = ref, !.wrote = TRUE,
                                          !.pc = "p_resp"])
  /\ UNCHANGED <<cfg, scn, bindings, iamUsers, iamKeys, nextKey,
                 buckets, deployments, director>>

(* the 202 answer of a dedicated provision: getDashboardURL reads the      *)
(* record while the background routine may already be writing it.          *)
ProvisionRespond(s) ==
  LET r == reqs[s] IN
  /\ At(s, "p_resp")
  /\ SetReq(s, [Respond(r, 202, "") EXCEPT !.url = getDashboardURL(objs[r.inst])])
  /\ objs' = [objs EXCEPT ![r.inst].createdURL = getDashboardURL(objs[r.inst])]
  /\ UNCHANGED <<cfg, scn, instances, bindings, routines,
                 iamUsers, iamKeys, nextKey, buckets, deployments, faults, director>>

(* -------------------------- deprovisionHandler ------------------------ *)
DeprovisionGet(s) ==
  LET r == reqs[s] IN
  /\ At(s, "d_get")
  /\ IF GetInstance(r.iid) = 0
       THEN SetReq(s, Respond(r, 410, "InstanceNotFound"))
       ELSE SetReq(s, [r EXCEPT !.inst = GetInstance(r.iid), !.pc = "d_list"])
  /\ UNCHANGED <<cfg, scn, objs, instances, bindings, routines,
                 iamUsers, iamKeys, nextKey, buckets, deployments, faults, director>>

(* The check of deprovisionHandler on the bindings it listed.  A check     *)
(* that lets a single binding through is the variant the deprovision       *)
(* properties must tell apart.                                             *)
BlockedByMany(listed) == Cardinality(listed) > 1
Blocked(listed) == listed # {}

(* A dedicated instance is deprovisioned only by a caller that accepts an  *)
(* asynchronous operation; the variant never asks for it.                  *)
NeverNeedsAsync(o, async) == FALSE
NeedsAsync(o, async) == o.Plan = PlanTypeDedicated /\ ~async

(* ListBindingsForInstance and the checks that follow it *)
DeprovisionList(s) ==
  LET r == reqs[s] IN
  /\ At(s, "d_list")
  /\ IF Blocked(ListBindingsForInstance(r.iid))
       THEN SetReq(s, Respond(r, 400, "BindingsExist"))
       ELSE IF NeedsAsync(objs[r.inst], r.async)
         THEN SetReq(s, Respond(r, 422, "AsyncRequired"))
         ELSE SetReq(s, [r EXCEPT !.pc = "d_act"])
  /\ UNCHANGED <<cfg, scn, objs, instances, bindings, routines,
                 iamUsers, iamKeys, nextKey, buckets, deployments, faults, director>>

(* The answer of a shared deprovision: the error of                        *)
(* deprovisionSharedBucket is only logged, the error of DeleteInstance is  *)
(* answered 500.  The variant gives up when the bucket cannot be removed.  *)
SharedDeprovisionedOrAbort(r, removed, saved) ==
  IF ~removed THEN [Respond(r, 500, "DeprovisionError") EXCEPT !.wrote = TRUE]
  ELSE IF saved THEN [Respond(r, 200, "") EXCEPT !.wrote = TRUE]
  ELSE [Respond(r, 500, "StoreError") EXCEPT !.wrote = TRUE]
SharedDeprovisioned(r, removed, saved) ==
  IF saved THEN [Respond(r, 200, "") EXCEPT !.wrote = TRUE]
           ELSE [Respond(r, 500, "StoreError") EXCEPT !.wrote = TRUE]

(* Dedicated: instance.State = "deprovisioning", SaveInstance, go          *)
(* deprovisionDedicatedCluster.  Shared: deprovisionSharedBucket (its      *)
(* error is only logged), then DeleteInstance.                             *)
DeprovisionAct(s) ==
  LET r == reqs[s]
      o == objs[r.inst] IN
  /\ At(s, "d_act")
  /\ o.Plan = PlanTypeDedicated => FreeRoutine # 0
  /\ IF o.Plan = PlanTypeDedicated
       THEN /\ objs' = [objs EXCEPT ![r.inst].State = "deprovisioning"]
            /\ instances' = [instances EXCEPT ![r.iid] = r.inst]
            /\ buckets' = buckets
            /\ \E saved \in Outcomes :
                 /\ faults' = Charge(saved)
                 /\ IF saved
                      THEN /\ routines' = [routines EXCEPT ![FreeRoutine] =
                                             [IdleRoutine EXCEPT
                                                !.kind = "deprovision",
                                                !.obj = r.inst,
                                                !.pc = "t_start"]]
                           /\ SetReq(s, [Respond(r, 202, "") EXCEPT !.wrote = TRUE])
                      ELSE /\ routines' = routines
                           /\ SetReq(s, [Respond(r, 500, "StoreError") EXCEPT
                                           !.wrote = TRUE])
       ELSE /\ objs' = objs
            /\ routines' = routines
            /\ instances' = DeleteInstance(r.iid)
            /\ \E removed \in Outcomes :
                 /\ buckets' = IF removed /\ cfg.shared /\ o.BucketName # NoBucket
                                 THEN buckets \ {o.BucketName} ELSE buckets
                 /\ \E saved \in BOOLEAN :
                      /\ faults' = faults + (IF removed THEN 0 ELSE 1)
                                          + (IF saved THEN 0 ELSE 1)
                      /\ faults' <= scn.faults
                      /\ SetReq(s, SharedDeprovisioned(r, removed, saved))
  /\ UNCHANGED <<cfg, scn, bindings, iamUsers, iamKeys, nextKey, deployments, director>>

(* ------------------------- identity API (IAM) ------------------------- *)
(* The identity API a binding is issued on: the dedicated cluster of the   *)
(* instance record o, or the shared cluster.                               *)
ClusterOf(o) ==
  IF o.DeploymentName # NoDeployment THEN o.DeploymentName ELSE <<"shared">>

(* iam.Client.CreateUser, when the call succeeds *)
CreateUser(cluster, user) == iamUsers \cup {<<cluster, user>>}

(* iam.Client.CreateAccessKey, when the call succeeds *)
CreateAccessKey(cluster, user, key) == iamKeys \cup {<<cluster, user, key>>}

(* iam.Client.DeleteUser, when the call succeeds: the user goes, and its   *)
(* access keys with it.                                                    *)
DeleteUserUsers(cluster, user) == iamUsers \ {<<cluster, user>>}
DeleteUserKeys(cluster, user) ==
  {k \in iamKeys : ~(k[1] = cluster /\ k[2] = user)}

(* iam.Client.DeleteAccessKey, when the call succeeds *)
DeleteAccessKey(cluster, user, key) == iamKeys \ {<<cluster, user, key>>}

(* config.SharedCluster.S3Endpoint *)
SharedEndpoint == "shared"

(* useSSL of buildCredentials for a dedicated instance:                    *)
(* !strings.Contains(endpoint, ":8333"), over the endpoints discovery      *)
(* yields.  The variant always announces TLS.                              *)
AlwaysSSL(endpoint) == TRUE
DirectSSL(endpoint) == endpoint \notin {"ip:8333", "dns:8333"}

(* fmt.Sprintf("%s://%s", protocol, endpoint) *)
EndpointURL(useSSL, endpoint) ==
  <<IF useSSL THEN "https" ELSE "http", endpoint>>

(* Broker.buildCredentials: endpoint, bucket and TLS flag are those of the *)
(* dedicated cluster when the instance has a deployment name, else those   *)
(* of the shared cluster; the keys are the binding's, not the instance's   *)
(* admin keys (the variant); console_url is NoURL when the key is absent.  *)
buildAdminCredentials(o, binding) ==
  LET dedicated == o.DeploymentName # NoDeployment
      endpoint == IF dedicated THEN o.S3Endpoint ELSE SharedEndpoint
      useSSL == IF dedicated THEN DirectSSL(endpoint) ELSE cfg.sharedSSL IN
  [endpoint |-> endpoint,
   bucket |-> o.BucketName,
   access_key |-> o.AdminAccessKey, secret_key |-> o.AdminSecretKey,
   use_ssl |-> useSSL,
   endpoint_url |-> EndpointURL(useSSL, endpoint),
   console_url |-> IF dedicated THEN o.ConsoleURL ELSE NoURL]
buildCredentials(o, binding) ==
  LET dedicated == o.DeploymentName # NoDeployment
      endpoint == IF dedicated THEN o.S3Endpoint ELSE SharedEndpoint
      useSSL == IF dedicated THEN DirectSSL(endpoint) ELSE cfg.sharedSSL IN
  [endpoint |-> endpoint,
   bucket |-> o.BucketName,
   access_key |-> binding.AccessKey, secret_key |-> binding.SecretKey,
   use_ssl |-> useSSL,
   endpoint_url |-> EndpointURL(useSSL, endpoint),
   console_url |-> IF dedicated THEN o.ConsoleURL ELSE NoURL]

(* getBindingHandler: GetInstance, GetBinding and the answer *)
getBindingHandler(s) ==
  /\ Free(s)
  /\ \E i \in scn.instances, b \in scn.bindings :
       LET r == [IdleReq EXCEPT !.op = "get_binding", !.iid = i, !.bid = b] IN
       \E q \in Arrivals(
                 IF instances[i] = 0
                   THEN Respond(r, 404, "InstanceNotFound")
                 ELSE IF ~bindings[b].present
                   THEN Respond(r, 404, "BindingNotFound")
                 ELSE [Respond(r, 200, "") EXCEPT
                         !.inst = instances[i],
                         !.creds = buildCredentials(objs[instances[i]],
                                                    bindings[b])]) :
         SetReq(s, q)
  /\ UNCHANGED <<cfg, scn, objs, instances, bindings, routines,
                 iamUsers, iamKeys, nextKey, buckets, deployments, faults, director>>

(* ------------------------------ bindHandler --------------------------- *)
(* The readiness check of bindHandler.  The variant refuses only a failed  *)
(* instance.                                                               *)
InstanceNotFailed(state) == state # "failed"
InstanceReady(state) == state = "succeeded"

(* GetInstance and the readiness check *)
BindGet(s) ==
  LET r == reqs[s] IN
  /\ At(s, "b_get")
  /\ IF instances[r.iid] = 0
       THEN SetReq(s, Respond(r, 404, "InstanceNotFound"))
       ELSE LET o == objs[instances[r.iid]]
                q == [r EXCEPT !.inst = instances[r.iid], !.seen = o.State] IN
            IF ~InstanceReady(o.State)
              THEN SetReq(s, Respond(q, 422, "InstanceNotReady"))
              ELSE SetReq(s, [q EXCEPT !.pc = "b_getb"])
  /\ UNCHANGED <<cfg, scn, objs, instances, bindings, routines,
                 iamUsers, iamKeys, nextKey, buckets, deployments, faults, director>>

(* GetBinding: an existing binding is answered from the store; otherwise   *)
(* the new binding record is built.  (For a dedicated instance the handler *)
(* then makes sure the default bucket exists on that cluster, best effort; *)
(* the buckets of dedicated clusters are not part of the state.)           *)
BindGetBinding(s) ==
  LET r == reqs[s] IN
  /\ At(s, "b_getb")
  /\ IF GetBinding(r.bid).present
       THEN SetReq(s, [Respond(r, 200, "") EXCEPT
                         !.bnd = GetBinding(r.bid),
                         !.creds = buildCredentials(objs[r.inst], GetBinding(r.bid))])
       ELSE SetReq(s, [r EXCEPT !.bnd = [NoBinding EXCEPT !.present = TRUE,
                                                         !.InstanceID = r.iid],
                                !.pc = "b_user"])
  /\ UNCHANGED <<cfg, scn, objs, instances, bindings, routines,
                 iamUsers, iamKeys, nextKey, buckets, deployments, faults, director>>

(* createS3Credentials falls back to the admin keys of a dedicated         *)
(* instance that has no IAM endpoint.                                      *)
AdminFallback(o) == o.DeploymentName # NoDeployment /\ ~o.IAMEndpoint

(* createS3Credentials after CreateUser or CreateAccessKey: an error ends  *)
(* the Bind with 500 BindError.  The variant goes on without the user or   *)
(* the key.                                                                *)
IssuedOrSkipped(r, call, ok, next) ==
  [r EXCEPT !.calls = Append(@, call),
            !.fails = IF ok THEN @ ELSE @ + 1,
            !.pc = next]
Issued(r, call, ok, next) ==
  IF ok THEN [r EXCEPT !.calls = Append(@, call), !.pc = next]
        ELSE [Respond(r, 500, "BindError") EXCEPT
                !.calls = Append(@, call), !.fails = @ + 1]

(* createS3Credentials, up to and including CreateUser *)
BindCreateUser(s) ==
  LET r == reqs[s]
      o == objs[r.inst]
      userName == UserNameOf(r.bid) IN
  /\ At(s, "b_user")
  /\ IF AdminFallback(o)
       THEN /\ SetReq(s, [r EXCEPT !.bnd.AccessKey = o.AdminAccessKey,
                                   !.bnd.SecretKey = o.AdminSecretKey,
                                   !.pc = "b_save"])
            /\ UNCHANGED <<iamUsers, faults>>
       ELSE IF o.DeploymentName = NoDeployment /\ ~cfg.shared
         THEN /\ SetReq(s, Respond(r, 500, "BindError"))
              /\ UNCHANGED <<iamUsers, faults>>
         ELSE \E ok \in Outcomes :
                /\ faults' = Charge(ok)
                /\ iamUsers' = IF ok THEN CreateUser(ClusterOf(o), userName)
                                     ELSE iamUsers
                /\ SetReq(s, Issued(r, "CreateUser", ok, "b_key"))
  /\ UNCHANGED <<cfg, scn, objs, instances, bindings, routines,
                 iamKeys, nextKey, buckets, deployments, director>>

(* CreateAccessKey and the assignment of the issued key to the binding.    *)
(* The identity API creates the user when it does not exist, and refuses   *)
(* once it has issued MaxKeys keys.                                        *)
BindCreateKey(s) ==
  LET r == reqs[s]
      o == objs[r.inst]
      userName == UserNameOf(r.bid) IN
  /\ At(s, "b_key")
  /\ \E ok \in (IF nextKey <= MaxKeys THEN Outcomes ELSE {FALSE}) :
       /\ faults' = IF nextKey <= MaxKeys THEN Charge(ok) ELSE faults
       /\ IF ok
            THEN /\ iamUsers' = CreateUser(ClusterOf(o), userName)
                 /\ iamKeys' = CreateAccessKey(ClusterOf(o), userName, nextKey)
                 /\ nextKey' = nextKey + 1
                 /\ SetReq(s, [Issued(r, "CreateAccessKey", ok, "b_policy") EXCEPT
                                 !.bnd.IAMUserName = userName,
                                 !.bnd.AccessKey = nextKey,
                                 !.bnd.SecretKey = nextKey])
            ELSE /\ UNCHANGED <<iamUsers, iamKeys, nextKey>>
                 /\ SetReq(s, Issued(r, "CreateAccessKey", ok, "b_policy"))
  /\ UNCHANGED <<cfg, scn, objs, instances, bindings, routines,
                 buckets, deployments, director>>

(* createS3Credentials after PutUserPolicy: its error is only logged.  The *)
(* variant fails the Bind when the policy cannot be attached.              *)
AttachedOrAbort(r, ok) ==
  IF ok THEN [r EXCEPT !.calls = Append(@, "PutUserPolicy"), !.pc = "b_save"]
        ELSE [Respond(r, 500, "BindError") EXCEPT
                !.calls = Append(@, "PutUserPolicy"), !.fails = @ + 1]
Attached(r, ok) ==
  [r EXCEPT !.calls = Append(@, "PutUserPolicy"),
            !.fails = IF ok THEN @ ELSE @ + 1,
            !.pc = "b_save"]

(* PutUserPolicy, best effort *)
BindPolicy(s) ==
  LET r == reqs[s] IN
  /\ At(s, "b_policy")
  /\ \E ok \in Outcomes :
       /\ faults' = Charge(ok)
       /\ SetReq(s, Attached(r, ok))
  /\ UNCHANGED <<cfg, scn, objs, instances, bindings, routines,
                 iamUsers, iamKeys, nextKey, buckets, deployments, director>>

(* FileStore.SaveBinding and the 201 answer *)
BindSave(s) ==
  LET r == reqs[s] IN
  /\ At(s, "b_save")
  /\ bindings' = SaveBinding(r.bid, r.bnd)
  /\ \E saved \in Outcomes :
       /\ faults' = Charge(saved)
       /\ SetReq(s, IF saved
                      THEN [Respond(r, 201, "") EXCEPT !.wrote = TRUE,
                              !.creds = buildCredentials(objs[r.inst], r.bnd)]
                      ELSE [Respond(r, 500, "StoreError") EXCEPT !.wrote = TRUE])
  /\ UNCHANGED <<cfg, scn, objs, instances, routines,
                 iamUsers, iamKeys, nextKey, buckets, deployments, director>>

(* ----------------------------- unbindHandler -------------------------- *)
(* A missing instance or binding is answered 410 Gone; the variant answers *)
(* 404 as bindHandler does.                                                *)
NotFound(r, err) == Respond(r, 404, err)
Gone(r, err) == Respond(r, 410, err)

(* deleteS3Credentials after one revocation call: its error is only        *)
(* logged.  The variant gives up with an error on the first failure.       *)
RevokedOrAbort(r, call, ok, next) ==
  IF ok THEN [r EXCEPT !.calls = Append(@, call), !.pc = next]
        ELSE [Respond(r, 500, "UnbindError") EXCEPT
                !.calls = Append(@, call), !.fails = @ + 1]
Revoked(r, call, ok, next) ==
  [r EXCEPT !.calls = Append(@, call),
            !.fails = IF ok THEN @ ELSE @ + 1,
            !.pc = next]

UnbindGet(s) ==
  LET r == reqs[s] IN
  /\ At(s, "u_get")
  /\ IF instances[r.iid] = 0
       THEN SetReq(s, Gone(r, "InstanceNotFound"))
       ELSE SetReq(s, [r EXCEPT !.inst = instances[r.iid], !.pc = "u_getb"])
  /\ UNCHANGED <<cfg, scn, objs, instances, bindings, routines,
                 iamUsers, iamKeys, nextKey, buckets, deployments, faults, director>>

(* deleteS3Credentials revokes nothing when the binding has no user, when  *)
(* a dedicated instance has no IAM endpoint, or when the shared identity   *)
(* client is missing.                                                      *)
HasRevocation(o, binding) ==
  /\ binding.IAMUserName # NoUser
  /\ IF o.DeploymentName # NoDeployment THEN o.IAMEndpoint ELSE cfg.shared

(* GetBinding and the early returns of deleteS3Credentials *)
UnbindGetBinding(s) ==
  LET r == reqs[s]
      b == GetBinding(r.bid) IN
  /\ At(s, "u_getb")
  /\ IF ~b.present
       THEN SetReq(s, Gone(r, "BindingNotFound"))
       ELSE SetReq(s, [r EXCEPT !.bnd = b,
                         !.pc = IF HasRevocation(objs[r.inst], b)
                                  THEN "u_policy" ELSE "u_delete"])
  /\ UNCHANGED <<cfg, scn, objs, instances, bindings, routines,
                 iamUsers, iamKeys, nextKey, buckets, deployments, faults, director>>

(* the step of deleteS3Credentials that follows DeleteUserPolicy *)
AfterPolicy(binding) == IF binding.AccessKey # NoKey THEN "u_key" ELSE "u_user"

(* DeleteUserPolicy, best effort *)
UnbindPolicy(s) ==
  LET r == reqs[s] IN
  /\ At(s, "u_policy")
  /\ \E ok \in Outcomes :
       /\ faults' = Charge(ok)
       /\ SetReq(s, Revoked(r, "DeleteUserPolicy", ok, AfterPolicy(r.bnd)))
  /\ UNCHANGED <<cfg, scn, objs, instances, bindings, routines,
                 iamUsers, iamKeys, nextKey, buckets, deployments, director>>

(* DeleteAccessKey, best effort *)
UnbindKey(s) ==
  LET r == reqs[s]
      o == objs[r.inst] IN
  /\ At(s, "u_key")
  /\ \E ok \in Outcomes :
       /\ faults' = Charge(ok)
       /\ iamKeys' = IF ok
                       THEN DeleteAccessKey(ClusterOf(o), r.bnd.IAMUserName,
                                            r.bnd.AccessKey)
                       ELSE iamKeys
       /\ SetReq(s, Revoked(r, "DeleteAccessKey", ok, "u_user"))
  /\ UNCHANGED <<cfg, scn, objs, instances, bindings, routines,
                 iamUsers, nextKey, buckets, deployments, director>>

(* DeleteUser, best effort *)
UnbindUser(s) ==
  LET r == reqs[s]
      o == objs[r.inst] IN
  /\ At(s, "u_user")
  /\ \E ok \in Outcomes :
       /\ faults' = Charge(ok)
       /\ iamUsers' = IF ok THEN DeleteUserUsers(ClusterOf(o), r.bnd.IAMUserName)
                            ELSE iamUsers
       /\ iamKeys' = IF ok THEN DeleteUserKeys(ClusterOf(o), r.bnd.IAMUserName)
                           ELSE iamKeys
       /\ SetReq(s, Revoked(r, "DeleteUser", ok, "u_delete"))
  /\ UNCHANGED <<cfg, scn, objs, instances, bindings, routines,
                 nextKey, buckets, deployments, director>>

(* FileStore.DeleteBinding and the 200 answer; seen notes whether the     *)
(* record was still stored when DeleteBinding ran                          *)
UnbindDelete(s) ==
  LET r == [reqs[s] EXCEPT !.seen = IF GetBinding(reqs[s].bid).present
                                      THEN "stored" ELSE "absent"] IN
  /\ At(s, "u_delete")
  /\ bindings' = DeleteBinding(r.bid)
  /\ \E saved \in Outcomes :
       /\ faults' = Charge(saved)
       /\ SetReq(s, IF saved
                      THEN [Respond(r, 200, "") EXCEPT !.wrote = TRUE]
                      ELSE [Respond(r, 500, "StoreError") EXCEPT !.wrote = TRUE])
  /\ UNCHANGED <<cfg, scn, objs, instances, routines,
                 iamUsers, iamKeys, nextKey, buckets, deployments, director>>

(* ------------------------ background routines ------------------------- *)
Finish(r) == routines' = [routines EXCEPT ![r] = IdleRoutine]
Goto(r, pc) == routines' = [routines EXCEPT ![r].pc = pc]

(* instance.State = "failed"; instance.StateMessage = msg.  The variant    *)
(* records the state without the message.                                  *)
FailedSilently(ref, msg) == [objs EXCEPT ![ref].State = "failed"]
Failed(ref, msg) ==
  [objs EXCEPT ![ref].State = "failed", ![ref].StateMessage = msg]

(* toYAMLArray *)
toYAMLArray(items) == IF items = <<>> THEN <<"z1">> ELSE items

(* canRouteRegister of generateDedicatedManifest; the variant asks only    *)
(* for the CF deployment and the system domain.                            *)
hasCFDeployment(c) == c.cfDeployment /\ c.systemDomain
canRouteRegister(c) ==
  c.cfDeployment /\ c.systemDomain /\ c.natsTLS /\ c.natsMachines

(* fmt.Sprintf("seaweedfs-%s.%s", instance.ID[:8], SystemDomain) *)
s3RouteHost(id) == <<"seaweedfs", Prefix8(id), "system-domain">>

(* generateDedicatedManifest for the instance record o under the broker    *)
(* configuration c, section by section.  The function reads the plan's     *)
(* AZs once for each of the four instance groups: azs holds the four       *)
(* values read.                                                            *)
generateDedicatedManifest(o, azs, c) ==
  [name |-> o.DeploymentName,
   releases |-> IF canRouteRegister(c) THEN {"seaweedfs", "routing", "bpm"}
                                       ELSE {"seaweedfs"},
   stemcells |-> <<"default">>,
   update |-> <<"canaries", 1, "max_in_flight", 1>>,
   master |-> [azs |-> toYAMLArray(azs[1]), replication |-> "001"],
   volume |-> [azs |-> toYAMLArray(azs[2])],
   filer |-> [azs |-> toYAMLArray(azs[3])],
   s3 |-> [azs |-> toYAMLArray(azs[4]),
           accessKey |-> o.AdminAccessKey, secretKey |-> o.AdminSecretKey,
           route |-> IF canRouteRegister(c) THEN s3RouteHost(o.ID) ELSE <<>>]]

(* BOSH cloud config: the zones GetCloudConfigAZsForNetwork finds *)
CloudAZs == <<"z1", "z2">>

(* The values a read of the plan's AZs by routine r can yield when the     *)
(* plan holds own: routines write the zones they discovered into the       *)
(* shared plan configuration without synchronisation, so a read races with *)
(* the write of every routine whose discovery has returned.                *)
RacingAZs(r, own) ==
  {own} \cup {routines[q].azs :
               q \in {t \in Routines \ {r} : routines[t].pc = "r_azs"}}

(* the four reads of the plan's AZs during one generation *)
Reads(r, own) ==
  {<<a, b, c, d>> : a \in RacingAZs(r, own), b \in RacingAZs(r, own),
                    c \in RacingAZs(r, own), d \in RacingAZs(r, own)}

(* provisionDedicatedCluster, up to Deploy: names and admin keys, then the *)
(* manifest when the plan has its zones, else the discovery call           *)
ProvisionStart(r) ==
  LET ref == routines[r].obj
      named == [objs EXCEPT
                  ![ref].DeploymentName = DeploymentNameOf(objs[ref].ID),
                  ![ref].AdminAccessKey = AdminKeyOf(ref),
                  ![ref].AdminSecretKey = AdminKeyOf(ref),
                  ![ref].BucketName = DefaultBucket] IN
  /\ Quiet /\ routines[r].kind = "provision" /\ routines[r].pc = "r_start"
  /\ IF ~cfg.bosh
       THEN /\ objs' = Failed(ref, "BOSH director not configured")
            /\ instances' = SaveInstance(ref)
            /\ Finish(r)
            /\ faults' = faults
       ELSE /\ objs' = named
            /\ instances' = instances
            /\ IF cfg.planAZs # <<>> \/ ~cfg.planNetwork
                 THEN /\ \E azs \in Reads(r, cfg.planAZs) :
                           routines' = [routines EXCEPT
                             ![r].pc = "r_deploy",
                             ![r].manifest =
                                generateDedicatedManifest(named[ref], azs, cfg)]
                      /\ faults' = faults
                 ELSE \E ok \in Outcomes :
                        /\ faults' = Charge(ok)
                        /\ routines' = [routines EXCEPT
                              ![r].pc = "r_azs",
                              ![r].azs = IF ok THEN CloudAZs ELSE <<"z1">>]
  /\ UNCHANGED <<cfg, scn, bindings, reqs, iamUsers, iamKeys, nextKey,
                 buckets, deployments, director>>

(* provisionDedicatedCluster after GetCloudConfigAZsForNetwork: the zones  *)
(* are written into the plan configuration and the manifest is generated   *)
ProvisionDiscover(r) ==
  LET ref == routines[r].obj IN
  /\ Quiet /\ routines[r].kind = "provision" /\ routines[r].pc = "r_azs"
  /\ cfg' = [cfg EXCEPT !.planAZs = routines[r].azs]
  /\ \E azs \in Reads(r, routines[r].azs) :
       routines' = [routines EXCEPT
         ![r].pc = "r_deploy",
         ![r].manifest = generateDedicatedManifest(objs[ref], azs, cfg)]
  /\ UNCHANGED <<scn, objs, instances, bindings, reqs, iamUsers, iamKeys,
                 nextKey, buckets, deployments, faults, director>>

(* provisionDedicatedCluster after boshClient.Deploy has returned ok (a   *)
(* task) or not (an error): the message and the save                       *)
Deployed(r, ok) ==
  LET ref == routines[r].obj IN
  /\ instances' = SaveInstance(ref)
  /\ IF ok
       THEN /\ deployments' = deployments \cup {objs[ref].DeploymentName}
            /\ objs' = [objs EXCEPT ![ref].StateMessage = "Deployment started"]
            /\ Goto(r, "r_wait")
       ELSE /\ deployments' = deployments
            /\ objs' = Failed(ref, "Failed to start deployment")
            /\ Finish(r)
  /\ UNCHANGED <<cfg, scn, bindings, reqs, iamUsers, iamKeys, nextKey, buckets>>

(* boshClient.Deploy and the save that follows it *)
ProvisionDeploy(r) ==
  /\ Quiet /\ routines[r].kind = "provision" /\ routines[r].pc = "r_deploy"
  /\ \E ok \in Outcomes : faults' = Charge(ok) /\ Deployed(r, ok)
  /\ UNCHANGED director

(* ---------------------- bosh.Client.authenticate ---------------------- *)
(* The first request of Deploy, followed step by step through              *)
(* doRequestWithContentType and authenticate.  Time is counted in token    *)
(* lifetimes: a token stored at time t has tokenExpiry t + 1.              *)
Calling(r) ==
  Quiet /\ routines[r].kind = "provision" /\ routines[r].pc = "r_deploy"

Call(r, call) == director' = [director EXCEPT !.calls[r] = call]

(* time.Now().Before(c.tokenExpiry) *)
Current(client) == client.now < client.tokenExpiry

(* authenticate begins: a cached token that has not expired is used as is *)
DirectorCheck(r) ==
  /\ Calling(r) /\ director.calls[r].pos = "idle"
  /\ IF director.token # NoToken /\ Current(director)
       THEN Call(r, [NoCall EXCEPT !.pos = "send"])
       ELSE Call(r, [NoCall EXCEPT !.pos = "refresh"])
  /\ UNCHANGED <<cfg, scn, objs, instances, bindings, reqs, routines,
                 iamUsers, iamKeys, nextKey, buckets, deployments, faults>>

(* GET /info and POST /oauth/token *)
DirectorFetch(r) ==
  /\ Calling(r) /\ director.calls[r].pos = "refresh"
  /\ \E ok \in Outcomes :
       /\ faults' = Charge(ok)
       /\ IF ok
            THEN Call(r, [pos |-> "token", fetched |-> <<r, director.now>>])
            ELSE Call(r, [NoCall EXCEPT !.pos = "refused"])
  /\ UNCHANGED <<cfg, scn, objs, instances, bindings, reqs, routines,
                 iamUsers, iamKeys, nextKey, buckets, deployments>>

(* c.token = tokenData.AccessToken *)
DirectorStoreToken(r) ==
  /\ Calling(r) /\ director.calls[r].pos = "token"
  /\ director' = [director EXCEPT !.token = director.calls[r].fetched,
                                  !.calls[r].pos = "expiry"]
  /\ UNCHANGED <<cfg, scn, objs, instances, bindings, reqs, routines,
                 iamUsers, iamKeys, nextKey, buckets, deployments, faults>>

(* c.tokenExpiry = time.Now().Add(ExpiresIn - 60) *)
DirectorStoreExpiry(r) ==
  /\ Calling(r) /\ director.calls[r].pos = "expiry"
  /\ director' = [director EXCEPT !.tokenExpiry = director.now + 1,
                                  !.calls[r].pos = "send"]
  /\ UNCHANGED <<cfg, scn, objs, instances, bindings, reqs, routines,
                 iamUsers, iamKeys, nextKey, buckets, deployments, faults>>

(* authenticate has returned nil: the request is sent with c.token, and    *)
(* Deploy returns                                                          *)
DirectorDeploy(r) ==
  /\ Calling(r) /\ director.calls[r].pos = "send"
  /\ \E ok \in Outcomes : faults' = Charge(ok) /\ Deployed(r, ok)
  /\ Call(r, NoCall)

(* authenticate has returned an error, and so does Deploy *)
DirectorRefused(r) ==
  /\ Calling(r) /\ director.calls[r].pos = "refused"
  /\ faults' = faults /\ Deployed(r, FALSE)
  /\ Call(r, NoCall)

(* time passes *)
Tick ==
  /\ Quiet /\ director.now < MaxTime
  /\ \E r \in Routines : Calling(r)
  /\ director' = [director EXCEPT !.now = @ + 1]
  /\ UNCHANGED <<cfg, scn, objs, instances, bindings, reqs, routines,
                 iamUsers, iamKeys, nextKey, buckets, deployments, faults>>

(* the discovery of the gateway VM: <<IAMEndpoint set, S3Endpoint>> *)
Discoveries == {<<FALSE, "">>, <<TRUE, "ip:8333">>, <<TRUE, "dns:8333">>}

(* the condition provisionDedicatedCluster uses to choose the route host   *)
UseRouteHost == cfg.cfDeployment /\ cfg.systemDomain /\ cfg.natsTLS

(* time.Now().Before(deadline) is false.  The variant has no deadline.     *)
NeverExpired(clock) == FALSE
Expired(clock) == clock >= scn.polls

(* time.Sleep(5 * time.Second): time passes; past the deadline the clock   *)
(* is no longer counted.                                                   *)
Sleep(clock) == IF clock < MaxPolls THEN clock + 1 ELSE clock

(* the task states WaitForTask returns an error for; the variant knows     *)
(* only "error".                                                           *)
TaskErrored(state) == state = "error"
TaskFailed(state) == state \in {"error", "cancelled", "timeout"}

(* what WaitForTask returns: the task and the error *)
Returned(w, next, task, err) ==
  [w EXCEPT !.pc = next, !.task = task, !.err = err]

(* Client.WaitForTask, one iteration of its loop by routine r; when it     *)
(* returns, the routine continues at next.                                 *)
WaitForTask(r, next) ==
  LET w == routines[r] IN
  IF Expired(w.clock)
    THEN /\ routines' = [routines EXCEPT ![r] =
                           Returned(w, next, NoTask, <<"timed out">>)]
         /\ faults' = faults
    ELSE \E fetched \in Outcomes :
           /\ faults' = Charge(fetched)
           /\ IF ~fetched
                THEN routines' = [routines EXCEPT ![r] =
                                    Returned(w, next, NoTask, <<"get task failed">>)]
                ELSE \E task \in scn.tasks :
                       routines' = [routines EXCEPT ![r] =
                         IF task.State = "done"
                           THEN Returned(w, next, task, NoError)
                         ELSE IF TaskFailed(task.State)
                           THEN Returned(w, next, task,
                                         <<"failed", task.State, task.Result>>)
                         ELSE [w EXCEPT !.task = task, !.clock = Sleep(@)]]

(* provisionDedicatedCluster waits for the deployment task *)
ProvisionPoll(r) ==
  /\ Quiet /\ routines[r].kind = "provision" /\ routines[r].pc = "r_wait"
  /\ WaitForTask(r, "r_done")
  /\ UNCHANGED <<cfg, scn, objs, instances, bindings, reqs, iamUsers, iamKeys,
                 nextKey, buckets, deployments, director>>

(* provisionDedicatedCluster after WaitForTask has returned: the failure   *)
(* is recorded or, when the task is done, VM discovery, the choice of      *)
(* endpoints and the final save                                            *)
ProvisionWait(r) ==
  LET ref == routines[r].obj IN
  /\ Quiet /\ routines[r].kind = "provision" /\ routines[r].pc = "r_done"
  /\ instances' = SaveInstance(ref)
  /\ IF routines[r].err = NoError
       THEN \E d \in Discoveries :
              objs' = [objs EXCEPT
                         ![ref].IAMEndpoint = d[1],
                         ![ref].S3Endpoint = IF UseRouteHost THEN "route" ELSE d[2],
                         ![ref].ConsoleURL = IF UseRouteHost
                                               THEN RouteURL(objs[ref].ID) ELSE @,
                         ![ref].State = "succeeded",
                         ![ref].StateMessage = "Deployment complete"]
       ELSE objs' = Failed(ref, "Deployment failed")
  /\ Finish(r)
  /\ UNCHANGED <<cfg, scn, bindings, reqs, iamUsers, iamKeys, nextKey,
                 buckets, deployments, faults, director>>

(* deprovisionDedicatedCluster, up to the existence check: a deployment    *)
(* that GetDeployment does not return, for whatever reason, is taken to be *)
(* gone.                                                                   *)
TeardownStart(r) ==
  LET ref == routines[r].obj
      o == objs[ref] IN
  /\ Quiet /\ routines[r].kind = "deprovision" /\ routines[r].pc = "t_start"
  /\ objs' = objs
  /\ IF ~cfg.bosh \/ o.DeploymentName = NoDeployment
       THEN instances' = DeleteInstance(o.ID) /\ Finish(r) /\ faults' = faults
       ELSE \E ok \in Outcomes :
              /\ faults' = Charge(ok)
              /\ IF ok /\ o.DeploymentName \in deployments
                   THEN instances' = instances /\ Goto(r, "t_delete")
                   ELSE instances' = DeleteInstance(o.ID) /\ Finish(r)
  /\ UNCHANGED <<cfg, scn, bindings, reqs, iamUsers, iamKeys, nextKey,
                 buckets, deployments, director>>

(* boshClient.DeleteDeployment followed by WaitForTask *)
TeardownDelete(r) ==
  LET ref == routines[r].obj
      o == objs[ref] IN
  /\ Quiet /\ routines[r].kind = "deprovision" /\ routines[r].pc = "t_delete"
  /\ \E ok \in Outcomes :
       /\ faults' = Charge(ok)
       /\ IF ok
            THEN /\ deployments' = deployments \ {o.DeploymentName}
                 /\ iamUsers' = {u \in iamUsers : u[1] # o.DeploymentName}
                 /\ iamKeys' = {k \in iamKeys : k[1] # o.DeploymentName}
                 /\ instances' = DeleteInstance(o.ID)
                 /\ objs' = objs
            ELSE /\ UNCHANGED <<deployments, iamUsers, iamKeys>>
                 /\ objs' = Failed(ref, "Delete deployment failed")
                 /\ instances' = SaveInstance(ref)
  /\ Finish(r)
  /\ UNCHANGED <<cfg, scn, bindings, reqs, nextKey, buckets, director>>

(* ---------------------------- specification --------------------------- *)
Next ==
  \/ \E s \in Slots : StartProvision(s)
  \/ \E s \in Slots : StartDeprovision(s)
  \/ \E s \in Slots : StartBind(s)
  \/ \E s \in Slots : StartUnbind(s)
  \/ \E s \in Slots : ProvisionGet(s)
  \/ \E s \in Slots : ProvisionBucket(s)
  \/ \E s \in Slots : ProvisionSave(s)
  \/ \E s \in Slots : ProvisionRespond(s)
  \/ \E s \in Slots : DeprovisionGet(s)
  \/ \E s \in Slots : DeprovisionList(s)
  \/ \E s \in Slots : DeprovisionAct(s)
  \/ \E s \in Slots : BindGet(s)
  \/ \E s \in Slots : BindGetBinding(s)
  \/ \E s \in Slots : BindCreateUser(s)
  \/ \E s \in Slots : BindCreateKey(s)
  \/ \E s \in Slots : BindPolicy(s)
  \/ \E s \in Slots : BindSave(s)
  \/ \E s \in Slots : UnbindGet(s)
  \/ \E s \in Slots : UnbindGetBinding(s)
  \/ \E s \in Slots : UnbindPolicy(s)
  \/ \E s \in Slots : UnbindKey(s)
  \/ \E s \in Slots : UnbindUser(s)
  \/ \E s \in Slots : UnbindDelete(s)
  \/ \E s \in Slots : LastOperation(s)
  \/ \E s \in Slots : Return(s)
  \/ \E r \in Routines : ProvisionStart(r)
  \/ \E r \in Routines : ProvisionDeploy(r)
  \/ \E r \in Routines : ProvisionPoll(r)
  \/ \E r \in Routines : ProvisionWait(r)
  \/ \E r \in Routines : TeardownStart(r)
  \/ \E r \in Routines : TeardownDelete(r)
  \/ Collect

Spec == Init /\ [][Next]_vars

(* the handlers alone, on shared-plan instances *)
NextShared ==
  \/ \E s \in Slots : StartProvision(s)
  \/ \E s \in Slots : StartDeprovision(s)
  \/ \E s \in Slots : StartBind(s)
  \/ \E s \in Slots : StartUnbind(s)
  \/ \E s \in Slots : ProvisionGet(s)
  \/ \E s \in Slots : ProvisionBucket(s)
  \/ \E s \in Slots : ProvisionSave(s)
  \/ \E s \in Slots : DeprovisionGet(s)
  \/ \E s \in Slots : DeprovisionList(s)
  \/ \E s \in Slots : DeprovisionAct(s)
  \/ \E s \in Slots : BindGet(s)
  \/ \E s \in Slots : BindGetBinding(s)
  \/ \E s \in Slots : BindCreateUser(s)
  \/ \E s \in Slots : BindCreateKey(s)
  \/ \E s \in Slots : BindPolicy(s)
  \/ \E s \in Slots : BindSave(s)
  \/ \E s \in Slots : UnbindGet(s)
  \/ \E s \in Slots : UnbindGetBinding(s)
  \/ \E s \in Slots : UnbindPolicy(s)
  \/ \E s \in Slots : UnbindKey(s)
  \/ \E s \in Slots : UnbindUser(s)
  \/ \E s \in Slots : UnbindDelete(s)
  \/ \E s \in Slots : Return(s)
  \/ Collect

SpecConcurrent == InitConcurrent /\ [][NextShared]_vars

SpecStore == InitStore /\ [][NextShared]_vars

SpecSamePrefix == InitSamePrefix /\ [][NextShared]_vars

SpecTwoInstances == InitTwoInstances /\ [][Next]_vars

(* provision and deprovision of dedicated instances, with their routines *)
NextLifecycle ==
  \/ \E s \in Slots : StartProvision(s)
  \/ \E s \in Slots : StartDeprovision(s)
  \/ \E s \in Slots : ProvisionGet(s)
  \/ \E s \in Slots : ProvisionSave(s)
  \/ \E s \in Slots : ProvisionRespond(s)
  \/ \E s \in Slots : DeprovisionGet(s)
  \/ \E s \in Slots : DeprovisionList(s)
  \/ \E s \in Slots : DeprovisionAct(s)
  \/ \E s \in Slots : Return(s)
  \/ \E r \in Routines : ProvisionStart(r)
  \/ \E r \in Routines : ProvisionDeploy(r)
  \/ \E r \in Routines : ProvisionPoll(r)
  \/ \E r \in Routines : ProvisionWait(r)
  \/ \E r \in Routines : TeardownStart(r)
  \/ \E r \in Routines : TeardownDelete(r)
  \/ Collect

SpecLifecycle == InitLifecycle /\ [][NextLifecycle]_vars

SpecReloaded == InitReloaded /\ [][Next]_vars

(* provisioning of dedicated instances *)
NextDescriptor ==
  \/ \E s \in Slots : StartProvision(s)
  \/ \E s \in Slots : ProvisionGet(s)
  \/ \E s \in Slots : ProvisionSave(s)
  \/ \E s \in Slots : ProvisionRespond(s)
  \/ \E s \in Slots : Return(s)
  \/ \E r \in Routines : ProvisionStart(r)
  \/ \E r \in Routines : ProvisionDiscover(r)
  \/ \E r \in Routines : ProvisionDeploy(r)
  \/ \E r \in Routines : ProvisionPoll(r)
  \/ \E r \in Routines : ProvisionWait(r)

SpecDescriptor == InitDescriptor /\ [][NextDescriptor]_vars

(* provisioning of dedicated instances, Deploy followed step by step *)
NextDirector ==
  \/ \E s \in Slots : StartProvision(s)
  \/ \E s \in Slots : ProvisionGet(s)
  \/ \E s \in Slots : ProvisionSave(s)
  \/ \E s \in Slots : ProvisionRespond(s)
  \/ \E s \in Slots : Return(s)
  \/ \E r \in Routines : ProvisionStart(r)
  \/ \E r \in Routines : DirectorCheck(r)
  \/ \E r \in Routines : DirectorFetch(r)
  \/ \E r \in Routines : DirectorStoreToken(r)
  \/ \E r \in Routines : DirectorStoreExpiry(r)
  \/ \E r \in Routines : DirectorDeploy(r)
  \/ \E r \in Routines : DirectorRefused(r)
  \/ \E r \in Routines : ProvisionPoll(r)
  \/ \E r \in Routines : ProvisionWait(r)
  \/ Tick

SpecDirector == InitDirector /\ [][NextDirector]_vars

(* every route of Router *)
NextGate ==
  \/ Next
  \/ \E s \in Slots : healthHandler(s)
  \/ \E s \in Slots : catalogHandler(s)
  \/ \E s \in Slots : getInstanceHandler(s)
  \/ \E s \in Slots : getBindingHandler(s)

SpecGate == InitGate /\ [][NextGate]_vars

(* the lifecycle of a dedicated instance, polled by the platform *)
NextPolling ==
  \/ NextLifecycle
  \/ \E s \in Slots : LastOperation(s)

SpecPolling == InitPolling /\ [][NextPolling]_vars

(* The Go scheduler runs every goroutine that can run, so a background     *)
(* routine takes its next step however many requests arrive; a response,   *)
(* once written, is delivered, and the collector runs.  A routine's step   *)
(* is disabled only while a response is being delivered or a record        *)
(* reclaimed, hence the strong fairness.                                   *)
FairRoutines ==
  /\ \A r \in Routines :
       SF_vars(\/ ProvisionStart(r) \/ ProvisionDeploy(r)
               \/ ProvisionPoll(r) \/ ProvisionWait(r))
  /\ \A s \in Slots : WF_vars(Return(s))
  /\ WF_vars(Collect)

SpecProvisioning == InitProvisioning /\ [][NextLifecycle]_vars /\ FairRoutines

(* the polled lifecycle with fairly scheduled routines *)
SpecWaiting == SpecPolling /\ FairRoutines

(* ====================================================================== *)
(*                              Properties                                *)
(* ====================================================================== *)

(* C1  Bind requires readiness.  A Bind request that finds the instance    *)
(* in the store in a state other than "succeeded" is answered 422          *)
(* InstanceNotReady; it makes no identity-API call, saves no binding       *)
(* record and returns no credential.                                       *)
C1_BindRequiresReadiness ==
  [][\A s \in Slots :
       (/\ reqs[s].pc = "b_get"
        /\ reqs'[s] # reqs[s]
        /\ instances[reqs[s].iid] # 0
        /\ objs[instances[reqs[s].iid]].State # "succeeded")
       => /\ reqs'[s].pc = "done"
          /\ reqs'[s].code = 422
          /\ reqs'[s].err = "InstanceNotReady"
          /\ reqs'[s].calls = <<>>
          /\ reqs'[s].creds = NoCreds
          /\ bindings' = bindings
          /\ iamUsers' = iamUsers
          /\ iamKeys' = iamKeys
          /\ nextKey' = nextKey]_vars

(* a Bind has been refused on an instance that was not ready *)
C1_Witness ==
  \E s \in Slots :
    /\ reqs[s].op = "bind" /\ reqs[s].pc = "done"
    /\ reqs[s].seen \in {"provisioning", "deprovisioning", "failed"}
    /\ reqs[s].code = 422

(* C2  Deprovision blocked by bindings.  While the instance has a stored   *)
(* binding, a Deprovision request ends with 400 BindingsExist and leaves   *)
(* the instance record, its state and its bucket or deployment unchanged.  *)
(* Once the instance has no binding left, a Deprovision request is no      *)
(* longer refused for its bindings: it is answered 200 (shared) or 202     *)
(* (dedicated with accepts_incomplete), or 500 StoreError when the write   *)
(* of the state file fails.                                                *)
C2_DeprovisionBlockedByBindings ==
  [][\A s \in Slots :
       (/\ reqs[s].op = "deprovision"
        /\ reqs'[s] # reqs[s]
        /\ reqs[s].pc \in {"d_get", "d_list", "d_act"}
        /\ instances[reqs[s].iid] # 0)
       => IF ListBindingsForInstance(reqs[s].iid) # {}
            THEN /\ reqs'[s].pc \in {"d_list", "done"}
                 /\ reqs'[s].pc = "done" =>
                      reqs'[s].code = 400 /\ reqs'[s].err = "BindingsExist"
                 /\ UNCHANGED <<instances, objs, buckets, deployments, routines>>
            ELSE LET o == objs[instances[reqs[s].iid]] IN
                 (reqs'[s].pc = "done" /\ (o.Plan = PlanTypeDedicated => reqs[s].async))
                 => \/ reqs'[s].code = (IF o.Plan = PlanTypeShared THEN 200 ELSE 202)
                    \/ /\ reqs'[s].code = 500
                       /\ reqs'[s].err = "StoreError"
                       /\ faults' > faults]_vars

(* a Deprovision has been refused because of a binding *)
C2_Witness ==
  \E s \in Slots :
    /\ reqs[s].op = "deprovision" /\ reqs[s].pc = "done"
    /\ reqs[s].code = 400 /\ reqs[s].err = "BindingsExist"
    /\ ListBindingsForInstance(reqs[s].iid) # {}

(* C2 as stated: once the instance has no binding left, every Deprovision  *)
(* request succeeds with 200 (shared) or 202 (dedicated with               *)
(* accepts_incomplete).                                                    *)
C2_DeprovisionAlwaysSucceeds ==
  [][\A s \in Slots :
       (/\ reqs[s].op = "deprovision"
        /\ reqs'[s] # reqs[s]
        /\ reqs[s].pc \in {"d_get", "d_list", "d_act"}
        /\ instances[reqs[s].iid] # 0
        /\ ListBindingsForInstance(reqs[s].iid) = {}
        /\ reqs'[s].pc = "done")
       => LET o == objs[instances[reqs[s].iid]] IN
          (o.Plan = PlanTypeDedicated => reqs[s].async)
          => reqs'[s].code = (IF o.Plan = PlanTypeShared THEN 200 ELSE 202)]_vars

(* C3  Every stored binding names an instance that is still in the store,  *)
(* under any interleaving of Bind, Unbind and Deprovision.                 *)
C3_BindingsNameStoredInstance ==
  \A b \in BindingIDs :
    bindings[b].present => instances[bindings[b].InstanceID] # 0

(* C4  Idempotent provision.  A second Provision for an instance ID that   *)
(* has been provisioned is answered 200 with the dashboard URL of the      *)
(* first answer; it creates no bucket, submits no deployment and leaves    *)
(* the instance record as it is.                                           *)
C4_IdempotentProvision ==
  [][\A s \in Slots :
       (/\ reqs[s].pc = "p_get"
        /\ reqs'[s] # reqs[s]
        /\ instances[reqs[s].iid] # 0
        /\ objs[instances[reqs[s].iid]].createdURL # <<"pending">>)
       => /\ reqs'[s].pc = "done"
          /\ reqs'[s].code = 200
          /\ reqs'[s].url = objs[instances[reqs[s].iid]].createdURL
          /\ UNCHANGED <<instances, objs, buckets, deployments, routines>>]_vars

(* C5  Credential uniqueness.  Two bindings of one instance hold distinct  *)
(* key pairs and distinct identity-API user names.                         *)
C5_CredentialUniqueness ==
  \A b1, b2 \in BindingIDs :
    (/\ b1 # b2
     /\ bindings[b1].present /\ bindings[b2].present
     /\ bindings[b1].InstanceID = bindings[b2].InstanceID)
    => /\ <<bindings[b1].AccessKey, bindings[b1].SecretKey>>
            # <<bindings[b2].AccessKey, bindings[b2].SecretKey>>
       /\ bindings[b1].IAMUserName # bindings[b2].IAMUserName

(* an access key the storage service accepts: one the identity API has     *)
(* issued and not revoked, or the admin key of a running deployment        *)
KeyValid(key) ==
  \/ \E k \in iamKeys : k[3] = key
  \/ \E ref \in 1..Len(objs) :
       /\ key # NoKey
       /\ objs[ref].AdminAccessKey = key
       /\ objs[ref].DeploymentName \in deployments

(* C6  Unbind revokes only its own.  An Unbind of B1 whose revocation      *)
(* calls all succeeded leaves B1's access key and user revoked, and no     *)
(* step of it touches another binding of the same instance: that           *)
(* binding's record, user and access key stay as they are.                 *)
C6_UnbindRevokesOnlyItsOwn ==
  [][\A s \in Slots :
       (/\ reqs[s].op = "unbind"
        /\ reqs'[s] # reqs[s]
        /\ reqs[s].pc \in {"u_policy", "u_key", "u_user", "u_delete"})
       => /\ \A b2 \in BindingIDs \ {reqs[s].bid} :
               (bindings[b2].present /\ bindings[b2].InstanceID = reqs[s].bnd.InstanceID)
               => /\ bindings'[b2] = bindings[b2]
                  /\ {u \in iamUsers : u[2] = bindings[b2].IAMUserName} \subseteq iamUsers'
                  /\ {k \in iamKeys : k[3] = bindings[b2].AccessKey} \subseteq iamKeys'
          /\ (reqs'[s].pc = "done" /\ reqs'[s].code = 200 /\ reqs'[s].fails = 0)
             => /\ ~bindings'[reqs[s].bid].present
                /\ ~(KeyValid(reqs[s].bnd.AccessKey))'
                /\ \A u \in iamUsers' : u[2] # reqs[s].bnd.IAMUserName]_vars

(* C7  Unbind is best effort.  Once Unbind has found the instance and the  *)
(* binding, no failure of a revocation call ends the request: the binding  *)
(* record is deleted and the answer is 200, unless the write of the state  *)
(* file fails, which is answered 500 StoreError.                           *)
C7_UnbindBestEffort ==
  [][\A s \in Slots :
       (/\ reqs[s].op = "unbind"
        /\ reqs'[s] # reqs[s]
        /\ \/ reqs[s].pc \in {"u_policy", "u_key", "u_user", "u_delete"}
           \/ reqs[s].pc = "u_getb" /\ bindings[reqs[s].bid].present)
       => IF reqs[s].pc = "u_delete"
            THEN /\ ~bindings'[reqs[s].bid].present
                 /\ reqs'[s].pc = "done"
                 /\ \/ reqs'[s].code = 200 /\ faults' = faults
                    \/ /\ reqs'[s].code = 500
                       /\ reqs'[s].err = "StoreError"
                       /\ faults' = faults + 1
            ELSE reqs'[s].pc \in {"u_policy", "u_key", "u_user", "u_delete"}]_vars

(* an Unbind has answered 200 although a revocation call failed *)
C7_Witness ==
  \E s \in Slots :
    /\ reqs[s].op = "unbind" /\ reqs[s].pc = "done"
    /\ reqs[s].code = 200 /\ reqs[s].fails > 0
    /\ ~bindings[reqs[s].bid].present

(* C8  Revocation order.  When Unbind is about to delete the record of a   *)
(* binding that has an identity-API user, it has attempted                 *)
(* DeleteUserPolicy, DeleteAccessKey and DeleteUser, in that order.        *)
C8_RevocationOrder ==
  \A s \in Slots :
    (reqs[s].op = "unbind" /\ reqs[s].pc = "u_delete"
       /\ reqs[s].bnd.IAMUserName # NoUser)
    => reqs[s].calls = <<"DeleteUserPolicy", "DeleteAccessKey", "DeleteUser">>

(* C9  Unbind on a missing instance or binding is answered 410; it makes   *)
(* no identity-API call and leaves the store as it is.                     *)
C9_UnbindMissing ==
  [][\A s \in Slots :
       (/\ reqs[s].op = "unbind"
        /\ reqs'[s] # reqs[s]
        /\ \/ reqs[s].pc = "u_get"
           \/ reqs[s].pc = "u_getb" /\ ~bindings[reqs[s].bid].present)
       => /\ UNCHANGED <<instances, objs, bindings, iamUsers, iamKeys,
                         buckets, deployments>>
          /\ reqs'[s].calls = <<>>
          /\ (instances[reqs[s].iid] = 0 \/ reqs[s].pc = "u_getb")
             => /\ reqs'[s].pc = "done"
                /\ reqs'[s].code = 410]_vars

(* an Unbind has answered 410 for a binding that is not in the store *)
C9_Witness ==
  \E s \in Slots :
    /\ reqs[s].op = "unbind" /\ reqs[s].pc = "done"
    /\ reqs[s].code = 410 /\ reqs[s].err = "BindingNotFound"
    /\ instances[reqs[s].iid] # 0

(* C10  Bind is idempotent.  A Bind for a binding ID that is in the store  *)
(* is answered 200 with the stored key pair; it creates no identity-API    *)
(* user or key and leaves the store as it is.                              *)
C10_BindIdempotent ==
  [][\A s \in Slots :
       (/\ reqs[s].pc = "b_getb"
        /\ reqs'[s] # reqs[s]
        /\ bindings[reqs[s].bid].present)
       => /\ reqs'[s].pc = "done"
          /\ reqs'[s].code = 200
          /\ reqs'[s].creds.access_key = bindings[reqs[s].bid].AccessKey
          /\ reqs'[s].creds.secret_key = bindings[reqs[s].bid].SecretKey
          /\ reqs'[s].calls = <<>>
          /\ UNCHANGED <<instances, objs, bindings, iamUsers, iamKeys, nextKey>>]_vars

(* a repeated Bind has been answered with the stored keys of an            *)
(* identity-API user                                                       *)
C10_Witness ==
  \E s \in Slots :
    /\ reqs[s].op = "bind" /\ reqs[s].pc = "done" /\ reqs[s].code = 200
    /\ bindings[reqs[s].bid].IAMUserName # NoUser
    /\ reqs[s].creds.access_key = bindings[reqs[s].bid].AccessKey

(* the state of an instance ID as the platform can observe it *)
ObservedState(id) ==
  IF instances[id] = 0 THEN "absent" ELSE objs[instances[id]].State

(* the order of the states of an instance; "failed" stands outside it *)
StateRank(state) ==
  CASE state = "provisioning" -> 1
    [] state = "succeeded" -> 2
    [] state = "deprovisioning" -> 3
    [] state = "absent" -> 4
    [] OTHER -> 0

(* C11  Instance state only moves forward.  For every instance ID the      *)
(* observable state never steps back in the order provisioning,            *)
(* succeeded, deprovisioning, record deleted; a move to "failed" is the    *)
(* only other move.  In particular a deprovisioning instance never turns   *)
(* succeeded or provisioning again.                                        *)
C11_StateMovesForward ==
  [][\A id \in InstanceIDs :
       (/\ ObservedState(id) \in {"provisioning", "succeeded", "deprovisioning"}
        /\ ObservedState(id)' # "failed")
       => StateRank(ObservedState(id)') >= StateRank(ObservedState(id))]_vars

C13_AsyncDedicatedProvision ==
  [][/\ \A r \in Routines :
          (routines[r].pc = "idle" /\ routines'[r].kind = "provision")
          => /\ instances'[objs'[routines'[r].obj].ID] = routines'[r].obj
             /\ objs'[routines'[r].obj].State = "provisioning"
             /\ \E s \in Slots :
                  /\ reqs[s].pc = "p_save" /\ reqs[s].async
                  /\ reqs'[s].pc = "p_resp"
                  /\ reqs'[s].inst = routines'[r].obj
     /\ \A s \in Slots :
          (reqs[s].op = "provision" /\ reqs'[s] # reqs[s])
          => /\ deployments' = deployments
             /\ reqs[s].pc = "p_resp"
                => /\ reqs'[s].pc = "done"
                   /\ reqs'[s].code = 202]_vars

(* the 202 answer is out while the routine has not yet submitted the       *)
(* deployment                                                              *)
C13_Witness ==
  \E s \in Slots, r \in Routines :
    /\ reqs[s].op = "provision" /\ reqs[s].pc = "done" /\ reqs[s].code = 202
    /\ routines[r].kind = "provision" /\ routines[r].obj = reqs[s].inst
    /\ routines[r].pc \in {"r_start", "r_deploy"}
    /\ objs[reqs[s].inst].State = "provisioning"
    /\ deployments = {}

(* C14  Async required on provision.  A Provision for a new instance ID    *)
(* on a dedicated plan without accepts_incomplete is answered 422          *)
(* AsyncRequired, and one with an unknown plan is answered 400; both store *)
(* no instance record, start no background routine and submit no           *)
(* deployment.                                                             *)
C14_AsyncRequiredOnProvision ==
  [][\A s \in Slots :
       (/\ reqs[s].pc = "p_get"
        /\ reqs'[s] # reqs[s]
        /\ instances[reqs[s].iid] = 0
        /\ \/ reqs[s].plan \notin {PlanTypeShared, PlanTypeDedicated}
           \/ reqs[s].plan = PlanTypeDedicated /\ ~reqs[s].async)
       => /\ reqs'[s].pc = "done"
          /\ IF reqs[s].plan = PlanTypeDedicated
               THEN reqs'[s].code = 422 /\ reqs'[s].err = "AsyncRequired"
               ELSE reqs'[s].code = 400
          /\ UNCHANGED <<instances, objs, routines, deployments, buckets>>]_vars

(* a synchronous Provision of a dedicated plan has been refused *)
C14_Witness ==
  \E s \in Slots :
    /\ reqs[s].op = "provision" /\ reqs[s].pc = "done"
    /\ reqs[s].plan = PlanTypeDedicated /\ ~reqs[s].async
    /\ reqs[s].code = 422 /\ reqs[s].err = "AsyncRequired"
    /\ instances[reqs[s].iid] = 0

(* C15  Synchronous shared provision.  A Provision of a shared plan that   *)
(* is answered 201 has created the bucket and stored the instance in       *)
(* state "succeeded"; a shared instance is never in the store in state     *)
(* "provisioning"; and when bucket creation fails the answer is 500 and    *)
(* no instance record is stored.                                           *)
C15_SyncSharedProvision ==
  [][/\ \A id \in InstanceIDs :
          (instances'[id] # 0 /\ objs'[instances'[id]].Plan = PlanTypeShared)
          => objs'[instances'[id]].State # "provisioning"
     /\ \A s \in Slots :
          (reqs[s].op = "provision" /\ reqs[s].plan = PlanTypeShared
             /\ reqs'[s] # reqs[s] /\ reqs'[s].pc = "done")
          => /\ reqs[s].pc = "p_bucket"
                => /\ reqs'[s].code = 500
                   /\ reqs'[s].err = "ProvisionError"
                   /\ UNCHANGED <<instances, objs, buckets>>
             /\ reqs'[s].code = 201
                => /\ instances'[reqs[s].iid] # 0
                   /\ objs'[instances'[reqs[s].iid]].State = "succeeded"
                   /\ objs'[instances'[reqs[s].iid]].BucketName \in buckets'
             /\ reqs[s].pc = "p_save" => reqs'[s].code \in {201, 500}]_vars

(* a shared Provision has failed on its bucket and stored nothing *)
C15_Witness ==
  \E s \in Slots :
    /\ reqs[s].op = "provision" /\ reqs[s].pc = "done"
    /\ reqs[s].plan = PlanTypeShared
    /\ reqs[s].code = 500 /\ reqs[s].err = "ProvisionError"
    /\ instances[reqs[s].iid] = 0

(* C16  Unique bucket per shared instance.  Any two distinct shared-plan   *)
(* instances in the store have distinct bucket names.                      *)
C16_UniqueBucket ==
  \A i1, i2 \in InstanceIDs :
    (/\ i1 # i2
     /\ instances[i1] # 0 /\ instances[i2] # 0
     /\ objs[instances[i1]].Plan = PlanTypeShared
     /\ objs[instances[i2]].Plan = PlanTypeShared)
    => objs[instances[i1]].BucketName # objs[instances[i2]].BucketName

(* C17  Shared deprovision is best effort on the bucket.  The step of      *)
(* Deprovision that acts on a shared instance removes the instance record; *)
(* it answers 200 whether or not the bucket could be removed, and 500      *)
(* StoreError exactly when the write of the state file failed.             *)
C17_SharedDeprovisionBestEffort ==
  [][\A s \in Slots :
       (/\ reqs[s].pc = "d_act"
        /\ reqs'[s] # reqs[s]
        /\ objs[reqs[s].inst].Plan = PlanTypeShared)
       => LET bucketFailed == objs[reqs[s].inst].BucketName \in buckets'
              storeFailed ==
                faults' - faults - (IF bucketFailed THEN 1 ELSE 0) = 1 IN
          /\ objs[reqs[s].inst].BucketName \in buckets
          /\ instances'[reqs[s].iid] = 0
          /\ reqs'[s].pc = "done"
          /\ IF storeFailed
               THEN reqs'[s].code = 500 /\ reqs'[s].err = "StoreError"
               ELSE reqs'[s].code = 200]_vars

(* a shared Deprovision has answered 200 although its bucket is still      *)
(* there                                                                   *)
C17_Witness ==
  \E s \in Slots :
    /\ reqs[s].op = "deprovision" /\ reqs[s].pc = "done" /\ reqs[s].code = 200
    /\ objs[reqs[s].inst].Plan = PlanTypeShared
    /\ objs[reqs[s].inst].BucketName \in buckets
    /\ instances[reqs[s].iid] = 0

(* C18  Dedicated deprovision.  For a dedicated instance without bindings, *)
(* Deprovision without accepts_incomplete is answered 422 AsyncRequired    *)
(* and leaves the instance as it is.  With accepts_incomplete the instance *)
(* is stored in state "deprovisioning" and either the teardown routine     *)
(* starts on it and the answer is 202, or the write of the state file has  *)
(* failed, no routine starts and the answer is 500 StoreError.             *)
C18_DedicatedDeprovision ==
  [][\A s \in Slots :
       (/\ reqs[s].op = "deprovision"
        /\ reqs'[s] # reqs[s]
        /\ reqs[s].pc \in {"d_list", "d_act"}
        /\ objs[reqs[s].inst].Plan = PlanTypeDedicated
        /\ ListBindingsForInstance(reqs[s].iid) = {})
       => IF reqs[s].pc = "d_list"
            THEN /\ UNCHANGED <<instances, objs, routines, deployments>>
                 /\ IF reqs[s].async
                      THEN reqs'[s].pc = "d_act"
                      ELSE /\ reqs'[s].pc = "done"
                           /\ reqs'[s].code = 422
                           /\ reqs'[s].err = "AsyncRequired"
            ELSE /\ reqs[s].async
                 /\ instances'[reqs[s].iid] = reqs[s].inst
                 /\ objs'[reqs[s].inst].State = "deprovisioning"
                 /\ reqs'[s].pc = "done"
                 /\ \/ /\ reqs'[s].code = 202
                       /\ faults' = faults
                       /\ \E r \in Routines :
                            /\ routines[r].pc = "idle"
                            /\ routines' = [routines EXCEPT ![r] =
                                  [IdleRoutine EXCEPT
                                     !.kind = "deprovision",
                                     !.obj = reqs[s].inst, !.pc = "t_start"]]
                    \/ /\ reqs'[s].code = 500
                       /\ reqs'[s].err = "StoreError"
                       /\ faults' = faults + 1
                       /\ routines' = routines]_vars

(* a synchronous Deprovision of a dedicated instance has been refused *)
C18_Witness ==
  \E s \in Slots :
    /\ reqs[s].op = "deprovision" /\ reqs[s].pc = "done"
    /\ reqs[s].code = 422 /\ reqs[s].err = "AsyncRequired"
    /\ instances[reqs[s].iid] = reqs[s].inst
    /\ objs[reqs[s].inst].Plan = PlanTypeDedicated
    /\ objs[reqs[s].inst].State # "deprovisioning"

(* C18 as stated: with accepts_incomplete the Deprovision of a dedicated   *)
(* instance without bindings is answered 202.                              *)
C18_AlwaysAccepted ==
  [][\A s \in Slots :
       (/\ reqs[s].pc = "d_act"
        /\ reqs'[s] # reqs[s]
        /\ objs[reqs[s].inst].Plan = PlanTypeDedicated
        /\ reqs[s].async)
       => /\ objs'[reqs[s].inst].State = "deprovisioning"
          /\ reqs'[s].code = 202]_vars

(* C19  An instance record is destroyed only after successful              *)
(* deprovisioning.  When a step of the background teardown removes the     *)
(* record of an instance, the deployment of that instance is gone; and     *)
(* when the deletion of the deployment fails, the record is kept in state  *)
(* "failed".                                                               *)
C19_RecordDestroyedAfterTeardown ==
  [][\A r \in Routines :
       (routines[r].kind = "deprovision" /\ routines'[r] # routines[r])
       => LET o == objs[routines[r].obj] IN
          /\ (instances[o.ID] # 0 /\ instances'[o.ID] = 0)
             => o.DeploymentName \notin deployments'
          /\ (routines[r].pc = "t_delete" /\ o.DeploymentName \in deployments')
             => /\ instances'[o.ID] = routines[r].obj
                /\ objs'[routines[r].obj].State = "failed"]_vars

(* C20  LastOperation.  For an instance in the store the answer is 200     *)
(* with "succeeded" for state succeeded, "failed" for state failed and     *)
(* "in progress" for provisioning and deprovisioning, and it carries a     *)
(* description exactly when the stored state message is not empty; for an  *)
(* instance that is not in the store the answer is 410; the store is never *)
(* modified.                                                               *)
C20_LastOperation ==
  [][\A s \in Slots :
       (reqs[s].pc = "idle" /\ reqs'[s].op = "last_operation")
       => /\ UNCHANGED <<instances, objs, bindings>>
          /\ reqs'[s].pc = "done"
          /\ IF instances[reqs'[s].iid] = 0
               THEN reqs'[s].code = 410
               ELSE LET o == objs[instances[reqs'[s].iid]] IN
                    /\ reqs'[s].code = 200
                    /\ o.State = "succeeded" => reqs'[s].state = "succeeded"
                    /\ o.State = "failed" => reqs'[s].state = "failed"
                    /\ o.State \in {"provisioning", "deprovisioning"}
                       => reqs'[s].state = "in progress"
                    /\ reqs'[s].state \in {"succeeded", "failed", "in progress"}
                    /\ (reqs'[s].desc # <<>>) <=> (o.StateMessage # "")
                    /\ reqs'[s].desc # <<>> => reqs'[s].desc = <<o.StateMessage>>]_vars

(* LastOperation has reported a deprovisioning instance as in progress,    *)
(* with a description                                                      *)
C20_Witness ==
  \E s \in Slots :
    /\ reqs[s].op = "last_operation" /\ reqs[s].pc = "done" /\ reqs[s].code = 200
    /\ objs[reqs[s].inst].State = "deprovisioning"
    /\ reqs[s].state = "in progress"
    /\ reqs[s].desc # <<>>

Provisioning(id) ==
  \E r \in Routines :
    routines[r].kind = "provision" /\ objs[routines[r].obj].ID = id

(* C22  Provisioning terminates.  With background routines scheduled       *)
(* fairly and every orchestrator call returning, an instance whose         *)
(* provisioning routine is running is eventually stored in state           *)
(* "succeeded" or "failed".                                                *)
C22_ProvisioningTerminates ==
  \A id \in {<<1, 1>>} :
    Provisioning(id) ~> (ObservedState(id) \in {"succeeded", "failed"})

(* the deployment task did not finish and the routine has left the         *)
(* instance failed                                                         *)
C22_Witness ==
  \E id \in InstanceIDs :
    /\ ObservedState(id) = "failed"
    /\ objs[instances[id]].StateMessage = "Deployment failed"
    /\ faults = 0
    /\ \A r \in Routines : routines[r].pc = "idle"

(* C30  WaitForTask outcome.  A step of WaitForTask returns success only   *)
(* with a task it fetched in state "done"; a task fetched in state         *)
(* "error", "cancelled" or "timeout" makes it return an error that carries *)
(* the task's state and result; a failed fetch makes it return that error  *)
(* at once; any other task state makes it sleep and poll again; it returns *)
(* "timed out" exactly when the deadline has passed; and a routine inside  *)
(* WaitForTask eventually leaves it.                                       *)
C30_WaitForTaskOutcome ==
  /\ [][\A r \in Routines :
          (routines[r].pc = "r_wait" /\ routines'[r] # routines[r])
          => LET w == routines[r]
                 v == routines'[r]
                 returned == v.pc = "r_done" IN
             /\ v.pc \in {"r_wait", "r_done"}
             /\ (returned /\ v.err = NoError) => v.task.State = "done"
             /\ v.task.State = "done" => (returned /\ v.err = NoError)
             /\ v.task.State \in {"error", "cancelled", "timeout"}
                  => /\ returned
                     /\ v.err = <<"failed", v.task.State, v.task.Result>>
             /\ faults' > faults
                  => returned /\ v.err = <<"get task failed">> /\ v.task = NoTask
             /\ v.task.State \in {"queued", "processing"}
                  => ~returned /\ v.clock = w.clock + 1 /\ v.err = NoError
             /\ w.clock >= scn.polls
                  <=> (returned /\ v.err = <<"timed out">> /\ v.task = NoTask)]_vars
  /\ \A r \in Routines :
       (routines[r].pc = "r_wait") ~> (routines[r].pc # "r_wait")

(* WaitForTask has polled until the deadline and returned "timed out" *)
C30_Witness ==
  \E r \in Routines :
    /\ routines[r].pc = "r_done"
    /\ routines[r].err = <<"timed out">>
    /\ routines[r].clock = scn.polls

(* C23  A binding is never mutated after creation.  In every step that     *)
(* finds a binding record stored and leaves one stored under the same ID,  *)
(* the record's access key, secret key, user name and instance ID are      *)
(* unchanged, also when two Bind requests with that binding ID run         *)
(* concurrently.                                                           *)
C23_BindingImmutable ==
  [][\A b \in BindingIDs :
       (bindings[b].present /\ bindings'[b].present)
       => /\ bindings'[b].AccessKey = bindings[b].AccessKey
          /\ bindings'[b].SecretKey = bindings[b].SecretKey
          /\ bindings'[b].IAMUserName = bindings[b].IAMUserName
          /\ bindings'[b].InstanceID = bindings[b].InstanceID]_vars

(* C24  Policy operations are best effort.  Whether PutUserPolicy fails or *)
(* not, Bind goes on to SaveBinding with the key it was issued, and a Bind *)
(* whose policy call failed stores the binding and answers 201 with that   *)
(* key when nothing else fails.  Whether DeleteUserPolicy fails or not,    *)
(* Unbind goes on to DeleteAccessKey, and an Unbind whose policy call      *)
(* failed has attempted DeleteAccessKey and DeleteUser when it deletes the *)
(* binding record.                                                         *)
C24_PolicyBestEffort ==
  [][\A s \in Slots :
       /\ (reqs[s].pc = "b_policy" /\ reqs'[s] # reqs[s])
          => /\ reqs'[s].pc = "b_save"
             /\ reqs'[s].bnd = reqs[s].bnd
             /\ reqs[s].bnd.AccessKey # NoKey
       /\ (/\ reqs[s].pc = "b_save" /\ reqs'[s] # reqs[s]
           /\ reqs[s].fails > 0 /\ faults' = faults)
          => /\ reqs'[s].pc = "done" /\ reqs'[s].code = 201
             /\ bindings'[reqs[s].bid] = reqs[s].bnd
             /\ reqs'[s].creds.access_key = reqs[s].bnd.AccessKey
             /\ reqs'[s].creds.secret_key = reqs[s].bnd.SecretKey
       /\ (reqs[s].pc = "u_policy" /\ reqs'[s] # reqs[s])
          => reqs'[s].pc = "u_key"
       /\ (/\ reqs[s].pc = "u_delete" /\ reqs'[s] # reqs[s]
           /\ reqs[s].calls # <<>>)
          => /\ reqs[s].calls =
                  <<"DeleteUserPolicy", "DeleteAccessKey", "DeleteUser">>
             /\ ~bindings'[reqs[s].bid].present]_vars

(* a Bind has answered 201 with its key although PutUserPolicy failed *)
C24_Witness ==
  \E s \in Slots :
    /\ reqs[s].op = "bind" /\ reqs[s].pc = "done" /\ reqs[s].code = 201
    /\ reqs[s].fails > 0
    /\ reqs[s].calls = <<"CreateUser", "CreateAccessKey", "PutUserPolicy">>
    /\ bindings[reqs[s].bid].present
    /\ reqs[s].creds.access_key = bindings[reqs[s].bid].AccessKey

(* C25  Access-key issuance never fails silently.  A Bind whose CreateUser *)
(* or CreateAccessKey call fails, or that finds no identity client for a   *)
(* shared instance, is answered 500 BindError without credentials and      *)
(* leaves the stored bindings as they are; and a Bind is answered 201 only *)
(* in the step in which SaveBinding has stored its binding, with the key   *)
(* the identity API issued or the admin key of the instance.               *)
C25_IssuanceNeverSilent ==
  [][\A s \in Slots :
       /\ (/\ reqs[s].pc \in {"b_user", "b_key"}
           /\ \/ reqs'[s].fails > reqs[s].fails
              \/ /\ reqs[s].pc = "b_user"
                 /\ objs[reqs[s].inst].DeploymentName = NoDeployment
                 /\ ~cfg.shared)
          => /\ reqs'[s].pc = "done"
             /\ reqs'[s].code = 500 /\ reqs'[s].err = "BindError"
             /\ reqs'[s].creds = NoCreds
             /\ bindings' = bindings
       /\ (/\ reqs'[s].op = "bind" /\ reqs'[s].code = 201
           /\ reqs'[s] # reqs[s])
          => /\ reqs[s].pc = "b_save"
             /\ faults' = faults
             /\ bindings'[reqs[s].bid].present
             /\ bindings'[reqs[s].bid] = reqs[s].bnd
             /\ reqs[s].bnd.AccessKey # NoKey
             /\ reqs'[s].creds.access_key = reqs[s].bnd.AccessKey]_vars

(* a Bind for a reloaded shared instance has been refused for want of an   *)
(* identity client, and nothing is stored                                  *)
C25_Witness ==
  \E s \in Slots :
    /\ reqs[s].op = "bind" /\ reqs[s].pc = "done"
    /\ reqs[s].code = 500 /\ reqs[s].err = "BindError"
    /\ reqs[s].calls = <<>>
    /\ ~cfg.shared
    /\ ~bindings[reqs[s].bid].present

(* what a request leaves alone when no handler runs *)
Untouched ==
  UNCHANGED <<objs, instances, bindings, routines, iamUsers, iamKeys,
              nextKey, buckets, deployments, faults>>

(* C26  Authentication gates every protocol route.  A request that arrives *)
(* on a /v2 route with missing or wrong credentials is answered 401,       *)
(* with or without the version header; one with valid credentials and no   *)
(* version header is answered 412; in both cases the answer carries        *)
(* nothing a handler computes and the store and the external systems are   *)
(* untouched.  A handler only ever runs for a request with valid           *)
(* credentials and the header.  GET /health is answered 200 with status    *)
(* "ok" whatever the credentials.                                          *)
C26_AuthGate ==
  [][\A s \in Slots :
       /\ (reqs[s].pc = "idle" /\ reqs'[s].pc # "idle")
          => LET q == reqs'[s]
                 bare == /\ q.pc = "done" /\ q.inst = 0 /\ q.seen = ""
                         /\ q.creds = NoCreds /\ q.url = NoURL
                         /\ q.state = "" /\ q.desc = <<>> /\ ~q.wrote
                         /\ Untouched IN
             IF q.op = "health"
               THEN q.pc = "done" /\ q.code = 200 /\ q.state = "ok" /\ Untouched
               ELSE /\ q.auth # "valid"
                       => q.code = 401 /\ q.err = "Unauthorized" /\ bare
                    /\ (q.auth = "valid" /\ ~q.version)
                       => q.code = 412 /\ q.err = "MissingAPIVersion" /\ bare
       /\ (reqs'[s].pc \notin {"idle", "done"})
          => reqs'[s].auth = "valid" /\ reqs'[s].version]_vars

(* a Bind without credentials and without the version header has been      *)
(* answered 401 while the instance it names is stored and ready            *)
C26_Witness ==
  \E s \in Slots :
    /\ reqs[s].op = "bind" /\ reqs[s].pc = "done"
    /\ reqs[s].auth = "missing" /\ ~reqs[s].version
    /\ reqs[s].code = 401
    /\ instances[reqs[s].iid] # 0
    /\ objs[instances[reqs[s].iid]].State = "succeeded"
    /\ ~bindings[reqs[s].bid].present

(* C27  Credential construction.  In every Bind answer that carries        *)
(* credentials: for an instance with a deployment name the endpoint is the *)
(* instance's S3 endpoint and use_ssl is false exactly when that endpoint  *)
(* has the direct port :8333; for a shared instance the endpoint and       *)
(* use_ssl are the configured ones; endpoint_url is https exactly when     *)
(* use_ssl is true; the keys are those of the binding; and console_url is  *)
(* there exactly for a dedicated instance that has a console URL.          *)
C27_CredentialConstruction ==
  \A s \in Slots :
    (/\ reqs[s].op = "bind" /\ reqs[s].pc = "done"
     /\ reqs[s].code \in {200, 201})
    => LET o == objs[reqs[s].inst]
           c == reqs[s].creds IN
       /\ IF o.DeploymentName # NoDeployment
            THEN /\ c.endpoint = o.S3Endpoint
                 /\ ~c.use_ssl <=> c.endpoint \in {"ip:8333", "dns:8333"}
            ELSE /\ c.endpoint = SharedEndpoint
                 /\ c.use_ssl = cfg.sharedSSL
       /\ c.endpoint_url[1] = (IF c.use_ssl THEN "https" ELSE "http")
       /\ c.endpoint_url[2] = c.endpoint
       /\ c.bucket = o.BucketName
       /\ c.access_key = bindings[reqs[s].bid].AccessKey
       /\ c.secret_key = bindings[reqs[s].bid].SecretKey
       /\ c.console_url # NoURL
            <=> (o.DeploymentName # NoDeployment /\ o.ConsoleURL # NoURL)
       /\ c.console_url # NoURL => c.console_url = o.ConsoleURL

(* a Bind to a dedicated instance discovered on its direct port has been   *)
(* answered with a plain-http endpoint                                     *)
C27_Witness ==
  \E s \in Slots :
    /\ reqs[s].op = "bind" /\ reqs[s].pc = "done" /\ reqs[s].code = 201
    /\ objs[reqs[s].inst].DeploymentName # NoDeployment
    /\ reqs[s].creds.endpoint = "ip:8333"
    /\ ~reqs[s].creds.use_ssl
    /\ reqs[s].creds.endpoint_url = <<"http", "ip:8333">>

(* C28  Descriptor determinism.  The descriptor a provisioning routine     *)
(* generates is the one its inputs determine: it carries the deployment    *)
(* name and admin keys of its instance, the route section the broker       *)
(* configuration asks for, and the zones of one plan configuration, the    *)
(* same for all four instance groups.                                      *)
C28_DescriptorDeterminism ==
  [][\A r \in Routines :
       (routines'[r].manifest # NoManifest /\ routines[r].manifest = NoManifest)
       => LET o == objs'[routines[r].obj]
              m == routines'[r].manifest IN
          \E zones \in {<<"z1">>, CloudAZs} :
             m = generateDedicatedManifest(
                   o, <<zones, zones, zones, zones>>, cfg)]_vars

(* C29  Route-registration toggle, as stated.  The descriptor a routine    *)
(* generates is compared with the one the same instance and zones give     *)
(* under the configuration with the condition switched (the bus            *)
(* credentials taken away where it holds; the system domain, CF deployment *)
(* and bus credentials all set where it does not).  Switching adds or      *)
(* removes the route-registration section of the gateway group and leaves  *)
(* every other section of the descriptor as it is, releases included.      *)
C29_ToggleChangesRouteSectionOnly ==
  [][\A r \in Routines :
       (routines'[r].manifest # NoManifest /\ routines[r].manifest = NoManifest)
       => LET Toggled(c) ==
                IF c.systemDomain /\ c.cfDeployment /\ c.natsTLS /\ c.natsMachines
                  THEN [c EXCEPT !.natsTLS = FALSE, !.natsMachines = FALSE]
                  ELSE [c EXCEPT !.systemDomain = TRUE, !.cfDeployment = TRUE,
                                 !.natsTLS = TRUE, !.natsMachines = TRUE]
              Rest(d) == [d EXCEPT !.s3.route = <<>>]
              m == routines'[r].manifest
              t == generateDedicatedManifest(
                     objs'[routines[r].obj],
                     <<m.master.azs, m.volume.azs, m.filer.azs, m.s3.azs>>,
                     Toggled(cfg)) IN
          /\ (m.s3.route = <<>>) # (t.s3.route = <<>>)
          /\ Rest(m) = Rest(t)]_vars

(* C29  Route-registration toggle, amended.  Switching the condition adds  *)
(* or removes the route-registration section of the gateway group and the  *)
(* routing and bpm entries of the releases section, both together; the     *)
(* name, stemcells, update policy, the other instance groups and the rest  *)
(* of the gateway group are the same in both descriptors.                  *)
C29_RouteRegistrationToggle ==
  [][\A r \in Routines :
       (routines'[r].manifest # NoManifest /\ routines[r].manifest = NoManifest)
       => LET Toggled(c) ==
                IF c.systemDomain /\ c.cfDeployment /\ c.natsTLS /\ c.natsMachines
                  THEN [c EXCEPT !.natsTLS = FALSE, !.natsMachines = FALSE]
                  ELSE [c EXCEPT !.systemDomain = TRUE, !.cfDeployment = TRUE,
                                 !.natsTLS = TRUE, !.natsMachines = TRUE]
              Rest(d) == [d EXCEPT !.s3.route = <<>>]
              m == routines'[r].manifest
              t == generateDedicatedManifest(
                     objs'[routines[r].obj],
                     <<m.master.azs, m.volume.azs, m.filer.azs, m.s3.azs>>,
                     Toggled(cfg))
              on == IF m.s3.route # <<>> THEN m ELSE t
              off == IF m.s3.route # <<>> THEN t ELSE m IN
          /\ on.s3.route = s3RouteHost(objs'[routines[r].obj].ID)
          /\ off.s3.route = <<>>
          /\ on.releases = off.releases \cup {"routing", "bpm"}
          /\ off.releases \cap {"routing", "bpm"} = {}
          /\ [Rest(on) EXCEPT !.releases = {}]
               = [Rest(off) EXCEPT !.releases = {}]]_vars

(* descriptors have been generated with and without route registration *)
C29_Witness ==
  \E r \in Routines :
    /\ routines[r].manifest # NoManifest
    /\ routines[r].manifest.s3.route # <<>>
    /\ "routing" \in routines[r].manifest.releases

(* C31  The token is refreshed under a lock: at most one routine at a time *)
(* is between the check of the cached token and the store of the new       *)
(* expiry, so at most one refresh is in flight and no routine reads or     *)
(* writes the token while another stores it.                               *)
C31_TokenRefreshExclusive ==
  Cardinality({r \in Routines :
                 director.calls[r].pos \in {"refresh", "token", "expiry"}}) <= 1

(* the handler in slot s takes the step that leaves position pc *)
Leaves(s, pc) == reqs[s].pc = pc /\ reqs'[s] # reqs[s]

C33_RecordsChangeThroughSave ==
  [][\A id \in InstanceIDs :
       LET ref == GetInstance(id)
           Fields(o) == [o EXCEPT !.createdURL = NoURL]
           Saves ==
             \/ \E s \in Slots : reqs[s].inst = ref /\ Leaves(s, "d_act")
             \/ \E r \in Routines :
                  /\ routines[r].obj = ref /\ routines'[r] # routines[r]
                  /\ ~(/\ routines[r].pc = "r_start"
                       /\ routines'[r].pc \in {"r_deploy", "r_azs"}) IN
       (/\ ref # 0 /\ instances'[id] = ref
        /\ Fields(objs'[ref]) # Fields(objs[ref]))
       => Saves]_vars

(* C34  No resurrection after deprovision: a record appears under an       *)
(* instance ID that has none only through the save of a Provision request  *)
(* for that ID, never through a step of a background routine.              *)
C34_NoResurrection ==
  [][\A id \in InstanceIDs :
       (GetInstance(id) = 0 /\ GetInstance(id)' # 0)
       => \E s \in Slots : reqs[s].iid = id /\ Leaves(s, "p_save")]_vars

(* C35  At most one creation per instance ID: a Provision request creates  *)
(* the bucket, stores the record and is answered created or accepted only  *)
(* when no record is stored under its instance ID; a request that arrives  *)
(* second is answered with the idempotent 200.                             *)
C35_AtMostOneCreation ==
  [][\A s \in Slots :
       /\ Leaves(s, "p_bucket") => GetInstance(reqs[s].iid) = 0
       /\ (Leaves(s, "p_save") /\ (reqs'[s].code = 201 \/ reqs'[s].pc = "p_resp"))
          => GetInstance(reqs[s].iid) = 0]_vars

(* C36  At most one background routine per instance: a Deprovision is      *)
(* accepted only when no provisioning or deprovisioning routine for the    *)
(* instance is running, so no two routines hold the same instance record.  *)
C36_OneRoutinePerInstance ==
  \A ref \in 1..Len(objs) :
    Cardinality({r \in Routines :
                   routines[r].pc # "idle" /\ routines[r].obj = ref}) <= 1

(* C37  Route hostname only when the route is registered: a provisioning   *)
(* routine sets the S3 endpoint and the console URL of its instance to the *)
(* route hostname only if the descriptor it generated has the              *)
(* route-registration section.                                             *)
C37_RouteHostOnlyWhenRegistered ==
  [][\A r \in Routines :
       (routines[r].pc = "r_done" /\ routines'[r].pc = "idle")
       => LET o == objs'[routines[r].obj] IN
          (o.S3Endpoint = "route" \/ o.ConsoleURL = RouteURL(o.ID))
          => routines[r].manifest.s3.route # <<>>]_vars

(* C38  A succeeded dedicated instance is bindable with a usable endpoint: *)
(* a dedicated instance stored as succeeded has an S3 endpoint, and the    *)
(* credentials a Bind returns for a dedicated instance carry an endpoint.  *)
C38_SucceededHasEndpoint ==
  /\ \A id \in InstanceIDs :
       (/\ GetInstance(id) # 0
        /\ objs[GetInstance(id)].Plan = PlanTypeDedicated
        /\ objs[GetInstance(id)].State = "succeeded")
       => objs[GetInstance(id)].S3Endpoint # ""
  /\ \A s \in Slots :
       (/\ reqs[s].op = "bind" /\ reqs[s].pc = "done"
        /\ reqs[s].code \in {200, 201}
        /\ objs[reqs[s].inst].Plan = PlanTypeDedicated)
       => reqs[s].creds.endpoint # ""

(* C39  Binding operations are scoped to the instance of the request: the  *)
(* idempotent Bind returns the credentials of a stored binding, and Unbind *)
(* deletes a stored binding, only when the binding's InstanceID is the     *)
(* instance ID of the request.                                             *)
C39_BindingScopedToInstance ==
  [][\A s \in Slots :
       LET b == GetBinding(reqs[s].bid) IN
       /\ (Leaves(s, "b_getb") /\ reqs'[s].code = 200)
          => b.InstanceID = reqs[s].iid
       /\ (Leaves(s, "u_delete") /\ b.present)
          => b.InstanceID = reqs[s].iid]_vars

(* C40  No identity resources leak from a failed Bind: when a Bind request *)
(* ends after it has created its user, the user and the key issued to it   *)
(* are named by a stored binding or exist no longer.                       *)
C40_NoLeakFromFailedBind ==
  [][\A s \in Slots :
       (/\ reqs[s].op = "bind" /\ reqs[s].pc \in {"b_key", "b_policy", "b_save"}
        /\ reqs'[s].pc = "done")
       => LET user == <<ClusterOf(objs[reqs[s].inst]), UserNameOf(reqs[s].bid)>> IN
          /\ user \in iamUsers'
             => \E b \in BindingIDs :
                  bindings'[b].present /\ bindings'[b].IAMUserName = user[2]
          /\ \A k \in iamKeys' :
               (k[1] = user[1] /\ k[2] = user[2] /\ k[3] = reqs[s].bnd.AccessKey)
               => GetBinding(reqs[s].bid)'.AccessKey = k[3]]_vars

====
